---- MODULE Spec2Model ----
(***************************************************************************)
(* A model of svg2gcode (sparques/svg2gcode): the path mini-language       *)
(* interpreter, the polygon offsetter, the SVG walker and the G-code       *)
(* emitter.                                                                *)
(*                                                                         *)
(* Numbers.  The program computes in float64.  The model computes in exact *)
(* rationals [n |-> numerator, d |-> denominator > 0] in lowest terms; the *)
(* inputs are drawn from small integers, so every value the model meets is *)
(* a rational with a small denominator.  TLC stops with an overflow error   *)
(* rather than wrap, and Hypot is defined only where the root is rational. *)
(* The depths of writeGcode are the exception: the pass loop compares the  *)
(* result of two subtractions with an input, so there every difference is  *)
(* rounded to the nearest number of SigBits significant bits, halves to    *)
(* even, as float64 rounds to 53 bits.                                     *)
(*                                                                         *)
(* Strings.  A string the program inspects character by character (path    *)
(* data, colours, style attributes) is a sequence of one-character         *)
(* strings.                                                                *)
(***************************************************************************)
EXTENDS Integers, Sequences, FiniteSets, TLC

VARIABLES
    \* ---- writeGcode (src/svg2gcode.go:426-516)
    paths,      \* the caller's entity list, handed to writeGcode
    compPaths,  \* the list writeGcode ranges over (lines 444-472)
    cfg,        \* Config
    out,        \* the instructions written to w, the first MaxOut of them
    pc,         \* the position of the program
    targetZ,    \* writeGcode's locals
    step,
    idx,        \* index of the entity the range loop is at (1-based)
    i,          \* index of the next point to cut (1-based)
    z,
    nextZ,
    err,        \* the error reported, "" when none
    \* ---- parseSimplePath (src/svg2gcode.go:210-367)
    pathD,      \* d, the path data: a sequence of characters
    segs,       \* the commands pathD was written from, each a list of lexemes
    sep,        \* how pathD separates them: "spaced" or "tight"
    parsed,     \* what parseSimplePath returned: pts, closed, err
    scan,       \* the locals of parseSimplePath while it reads the tokens of pathD
    \* ---- offsetPolygon (src/svg2gcode.go:527-633)
    inPoints,   \* the polyline first handed to offsetPolygon
    inDelta,    \* the delta of every call
    applied,    \* the modes offsetPolygon was called with, in order
    outPoints,  \* what the last call returned (inPoints before any call)
    \* ---- main (src/svg2gcode.go:90-175)
    flags,      \* the command line flags after flag.Parse
    doc,        \* the tokens the XML decoder reads from the -in file
    size,       \* w, h as parseSVG returned them
    cc,         \* the construction colour main computes
    created,    \* TRUE once the -out file has been created
    stderr,     \* the kinds of the messages written to os.Stderr, in order
    status,     \* the exit status, -1 while the program runs
    \* ---- parseSVG (src/unnamed/part_000:213-383)
    walk,       \* the locals of parseSVG while it reads doc token by token
    \* ---- Transform (src/geometry.go:9-34)
    calls       \* the operands and the results of the calls of geometry.go looked at

emitVars == <<paths, compPaths, cfg, out, pc, targetZ, step, idx, i, z, nextZ, err>>
pathVars == <<pathD, segs, sep, parsed, scan>>
offsetVars == <<inPoints, inDelta, applied, outPoints>>
mainVars == <<flags, doc, size, cc, created, stderr, status, walk>>
geomVars == <<calls>>
vars == <<emitVars, pathVars, offsetVars, mainVars, geomVars>>

----------------------------------------------------------------------------
(* Bounds of the model *)

\* at most this many entities in the list handed to writeGcode
MaxEntities == 2
\* at most this many commands in a path data string
MaxSegs == 3
\* out keeps the first MaxOut instructions written (longer than any output
\* of a run that ends)
MaxOut == 40

----------------------------------------------------------------------------
(* Exact rational arithmetic standing for float64 *)

Abs(k) == IF k < 0 THEN -k ELSE k

Min(a, b) == IF a <= b THEN a ELSE b

RECURSIVE Gcd(_, _)
Gcd(a, b) == IF b = 0 THEN a ELSE Gcd(b, a % b)

Rat(n, d) ==
    LET s == IF d < 0 THEN -1 ELSE 1
        g == Gcd(Abs(n), Abs(d))
    IN  [n |-> (s * n) \div g, d |-> (s * d) \div g]

RInt(k) == [n |-> k, d |-> 1]
RZero == RInt(0)
RNeg(a) == [n |-> -a.n, d |-> a.d]
RAbs(a) == [n |-> Abs(a.n), d |-> a.d]

\* a + b over the least common denominator d, g = Gcd(a.d, b.d)
AddOver(a, b, g) == Rat(a.n * (b.d \div g) + b.n * (a.d \div g), (a.d \div g) * b.d)
RAdd(a, b) == AddOver(a, b, Gcd(a.d, b.d))
RSub(a, b) == RAdd(a, RNeg(b))

\* a * b, the common factors g1 = Gcd(|a.n|, b.d) and g2 = Gcd(|b.n|, a.d)
\* cancelled before the products are formed
MulBy(a, b, g1, g2) ==
    [n |-> (a.n \div g1) * (b.n \div g2), d |-> (a.d \div g2) * (b.d \div g1)]
RMul(a, b) ==
    IF a.n = 0 \/ b.n = 0 THEN RZero
    ELSE MulBy(a, b, Gcd(Abs(a.n), b.d), Gcd(Abs(b.n), a.d))

\* a / b for b # 0 (the model never divides by zero)
RInv(b) == IF b.n < 0 THEN [n |-> -b.d, d |-> -b.n] ELSE [n |-> b.d, d |-> b.n]
RDiv(a, b) == RMul(a, RInv(b))

\* n1/d1 <= n2/d2 for d1, d2 > 0, by the integer parts and then the
\* remainders, so that no product is formed
RECURSIVE FracLe(_, _, _, _)
FracLe(n1, d1, n2, d2) ==
    IF n1 \div d1 # n2 \div d2 THEN n1 \div d1 < n2 \div d2
    ELSE IF n1 % d1 = 0 THEN TRUE
    ELSE IF n2 % d2 = 0 THEN FALSE
    ELSE FracLe(d2, n2 % d2, d1, n1 % d1)

RLe(a, b) == FracLe(a.n, a.d, b.n, b.d)
RLt(a, b) == a # b /\ RLe(a, b)

\* math.Abs(x) < 1e-9, for x in lowest terms, without overflow
AbsLtEps(x) ==
    \/ x.n = 0
    \/ LET q == x.d \div Abs(x.n)
           r == x.d % Abs(x.n)
       IN  q > 1000000000 \/ (q = 1000000000 /\ r > 0)

\* the significant bits of a depth: float64 has 53, the model keeps fewer so
\* that a difference that needs rounding is written with small numbers
SigBits == 12

\* the integer nearest to n / d for n >= 0, d > 0, a half going to the even one
NearestEven(n, d) ==
    IF 2 * (n % d) < d THEN n \div d
    ELSE IF 2 * (n % d) > d THEN (n \div d) + 1
    ELSE IF (n \div d) % 2 = 0 THEN n \div d ELSE (n \div d) + 1

\* (n / d) * (up / down) > 0 rounded to SigBits significant bits, up and down
\* the powers of 2 that bring n / d between 2^(SigBits-1) and 2^SigBits
RECURSIVE RoundPos(_, _, _, _)
RoundPos(n, d, up, down) ==
    IF n >= (2 ^ SigBits) * d THEN RoundPos(n, 2 * d, 2 * up, down)
    ELSE IF n < (2 ^ (SigBits - 1)) * d THEN RoundPos(2 * n, d, up, 2 * down)
    ELSE Rat(NearestEven(n, d) * up, down)

\* the float nearest to x: the result of a float64 operation whose exact
\* value is x
Float(x) ==
    IF x.n = 0 THEN x
    ELSE IF x.n < 0 THEN RNeg(RoundPos(-x.n, x.d, 1, 1))
    ELSE RoundPos(x.n, x.d, 1, 1)

\* fmt's %.3f: the value in thousandths, rounded to nearest, ties to even
Fmt3(x) ==
    LET m == x.n * 1000
        q == m \div x.d
        r == m % x.d
    IN  IF 2 * r < x.d THEN q
        ELSE IF 2 * r > x.d THEN q + 1
        ELSE IF q % 2 = 0 THEN q ELSE q + 1

----------------------------------------------------------------------------
(* geometry.go *)

Pt(x, y) == [X |-> x, Y |-> y]
P(x, y) == Pt(RInt(x), RInt(y))

cross(a, b) == RSub(RMul(a.X, b.Y), RMul(a.Y, b.X))

almostEqualPoint(a, b) ==
    AbsLtEps(RSub(a.X, b.X)) /\ AbsLtEps(RSub(a.Y, b.Y))

\* the integer root of a perfect square (TLC stops on any other argument)
Root(k) == CHOOSE r \in 0..k : r * r = k

RootRat(s) == [n |-> Root(s.n), d |-> Root(s.d)]

\* math.Hypot, where the result is rational
Hypot(x, y) == RootRat(RAdd(RMul(x, x), RMul(y, y)))

----------------------------------------------------------------------------
(* offsetPolygon (src/svg2gcode.go:527-633) *)

\* the duplicate closing point removed, lines 536-543
DropClosing(points) ==
    IF almostEqualPoint(points[Len(points)], points[1])
    THEN SubSeq(points, 1, Len(points) - 1)
    ELSE points

\* the shoelace sum of edges k..n, lines 552-556
RECURSIVE AreaSum(_, _)
AreaSum(poly, k) ==
    IF k > Len(poly) THEN RZero
    ELSE RAdd(RSub(RMul(poly[k].X, poly[(k % Len(poly)) + 1].Y),
                   RMul(poly[(k % Len(poly)) + 1].X, poly[k].Y)),
              AreaSum(poly, k + 1))

\* lines 552-557
SignedArea(poly) == RMul(AreaSum(poly, 1), Rat(1, 2))

\* dirs[j], lines 569-572 and 594
Diff(p1, p0) == Pt(RSub(p1.X, p0.X), RSub(p1.Y, p0.Y))
EdgeDir(poly, j) == Diff(poly[(j % Len(poly)) + 1], poly[j])

\* lines 573-576
EdgeLength(l0) == IF l0 = RZero THEN RInt(1) ELSE l0

\* the normal of a polygon taken to be of positive area whatever its winding
InteriorNormalOneWinding(e, length, area) ==
    Pt(RDiv(RNeg(e.Y), length), RDiv(e.X, length))

\* the unit normal towards the interior, lines 578-585
InteriorNormal(e, length, area) ==
    IF RLt(RZero, area)
    THEN Pt(RDiv(RNeg(e.Y), length), RDiv(e.X, length))
    ELSE Pt(RDiv(e.Y, length), RDiv(RNeg(e.X), length))

\* the interior normal used whatever the mode
NormalUsedInward(nIn, mode) == nIn

\* nUse, lines 587-592
NormalUsed(nIn, mode) ==
    IF mode = "inside" THEN nIn ELSE Pt(RNeg(nIn.X), RNeg(nIn.Y))

\* norms[j] of the edge e, lines 573-595
NormOf(e, area, mode) ==
    NormalUsed(InteriorNormal(e, EdgeLength(Hypot(e.X, e.Y)), area), mode)

EdgeNorm(poly, j, area, mode) == NormOf(EdgeDir(poly, j), area, mode)

\* q0 and q1, lines 607 and 612
OffsetPoint(p, nv, delta) ==
    Pt(RAdd(p.X, RMul(nv.X, delta)), RAdd(p.Y, RMul(nv.Y, delta)))

\* lines 621-624
PointAt(q0, e0, t) == Pt(RAdd(q0.X, RMul(e0.X, t)), RAdd(q0.Y, RMul(e0.Y, t)))

\* lines 614-624: the offset lines q0 + t*e0 and q1 + s*e1 meet, or q1
Intersection(q0, e0, q1, e1, denom) ==
    IF AbsLtEps(denom) THEN q1
    ELSE PointAt(q0, e0, RDiv(RNeg(cross(Diff(q0, q1), e1)), denom))

\* the offset vertex k of the loop of lines 600-625
PrevIndex(k, n) == ((k - 2 + n) % n) + 1

OffsetVertex(poly, k, area, delta, mode) ==
    Intersection(
        OffsetPoint(poly[PrevIndex(k, Len(poly))],
                    EdgeNorm(poly, PrevIndex(k, Len(poly)), area, mode), delta),
        EdgeDir(poly, PrevIndex(k, Len(poly))),
        OffsetPoint(poly[k], EdgeNorm(poly, k, area, mode), delta),
        EdgeDir(poly, k),
        cross(EdgeDir(poly, PrevIndex(k, Len(poly))), EdgeDir(poly, k)))

\* lines 627-632
ClosePolygon(result) ==
    IF Len(result) > 0 THEN Append(result, result[1]) ELSE result

\* lines 598-632: every offset vertex, then the first one again
OffsetResult(poly, area, delta, mode) ==
    ClosePolygon([k \in 1..Len(poly) |-> OffsetVertex(poly, k, area, delta, mode)])

\* what the degenerate branches return, lines 545-549 and 558-563
DegenerateResult(poly) == poly

\* lines 551-632, poly having at least 3 points
OffsetByArea(poly, area, delta, mode) ==
    IF AbsLtEps(area) THEN DegenerateResult(poly)
    ELSE OffsetResult(poly, area, delta, mode)

\* lines 535-632
OffsetNormalized(poly, delta, mode) ==
    IF Len(poly) < 3 THEN DegenerateResult(poly)
    ELSE OffsetByArea(poly, SignedArea(poly), delta, mode)

offsetPolygon(points, delta, mode) ==
    IF delta = RZero \/ Len(points) < 3 THEN points
    ELSE OffsetNormalized(DropClosing(points), delta, mode)

----------------------------------------------------------------------------
(* Curve flattening (src/geometry.go:68-113) *)

\* src/geometry.go:68-73
lerp(a, b, t) ==
    Pt(RAdd(a.X, RMul(RSub(b.X, a.X), t)), RAdd(a.Y, RMul(RSub(b.Y, a.Y), t)))

SqNorm(x, y) == RAdd(RMul(x, x), RMul(y, y))

DistSqTo(p, q) == SqNorm(RSub(p.X, q.X), RSub(p.Y, q.Y))

Square(x) == RMul(x, x)

\* the square of distPointToLine(p, a, b), lines 75-88.  The distance of p
\* to its projection on the line through a with direction (dx, dy) is
\* |(p - a) x (dx, dy)| / |(dx, dy)|: the model takes that quotient, whose
\* numbers stay small, for lines 84-87.
DistSqLine(p, a, dx, dy) ==
    IF dx = RZero /\ dy = RZero THEN DistSqTo(p, a)
    ELSE RDiv(Square(RSub(RMul(RSub(p.X, a.X), dy), RMul(RSub(p.Y, a.Y), dx))),
              SqNorm(dx, dy))

\* distPointToLine(p, a, b) <= flatness, compared on the squares
DistWithin(p, a, b, flatness) ==
    RLe(DistSqLine(p, a, RSub(b.X, a.X), RSub(b.Y, a.Y)), RMul(flatness, flatness))

\* line 95
FlatEnough(p0, p1, p2, p3, flatness) ==
    DistWithin(p1, p0, p3, flatness) /\ DistWithin(p2, p0, p3, flatness)

Half == Rat(1, 2)

\* a flat curve that leaves its end point to the curve after it
flattenCubicBezierOpen(p0, p1, p2, p3, flatness) ==
    IF DistWithin(p1, p0, p3, flatness) /\ DistWithin(p2, p0, p3, flatness) THEN <<>>
    ELSE <<lerp(lerp(p0, p1, Rat(1, 2)), lerp(p1, p2, Rat(1, 2)), Rat(1, 2)), p3>>

\* src/geometry.go:91-113: the points appended to out
RECURSIVE flattenCubicBezier(_, _, _, _, _)
RECURSIVE Halves(_, _, _, _, _, _, _, _)
RECURSIVE Subdivide(_, _, _, _, _, _, _, _)

\* lines 109-112, m0123 known
Halves(p0, m01, m012, m0123, m123, m23, p3, flatness) ==
    flattenCubicBezier(p0, m01, m012, m0123, flatness)
        \o flattenCubicBezier(m0123, m123, m23, p3, flatness)

\* lines 105-107, m01, m12 and m23 known
Subdivide(p0, m01, m12, m23, p3, m012, m123, flatness) ==
    Halves(p0, m01, m012, lerp(m012, m123, Half), m123, m23, p3, flatness)

Midpoints(p0, m01, m12, m23, p3, flatness) ==
    Subdivide(p0, m01, m12, m23, p3, lerp(m01, m12, Half), lerp(m12, m23, Half), flatness)

flattenCubicBezier(p0, p1, p2, p3, flatness) ==
    IF FlatEnough(p0, p1, p2, p3, flatness) THEN <<p3>>
    ELSE Midpoints(p0, lerp(p0, p1, Half), lerp(p1, p2, Half), lerp(p2, p3, Half), p3, flatness)

----------------------------------------------------------------------------
(* Path data: tokenizePathData, isCommand, strconv.ParseFloat *)

\* line 411
TokenizerCommands == {"M", "m", "L", "l", "H", "h", "V", "v", "Z", "z"}

\* lines 412-422: what the builder holds for d
RECURSIVE Spread(_)
Spread(d) ==
    IF d = <<>> THEN <<>>
    ELSE (IF Head(d) \in TokenizerCommands THEN <<" ", Head(d), " ">>
          ELSE IF Head(d) = "," THEN <<" ">>
          ELSE <<Head(d)>>) \o Spread(Tail(d))

IsSpace(c) == c \in {" ", "\t", "\n", "\r"}

\* strings.Fields: the maximal runs without white space; word is the run
\* being read
RECURSIVE Fields(_, _)
Fields(s, word) ==
    IF s = <<>> THEN (IF word = <<>> THEN <<>> ELSE <<word>>)
    ELSE IF IsSpace(Head(s))
         THEN (IF word = <<>> THEN <<>> ELSE <<word>>) \o Fields(Tail(s), <<>>)
         ELSE Fields(Tail(s), Append(word, Head(s)))

\* lines 408-424
tokenizePathData(d) == Fields(Spread(d), <<>>)

\* lines 369-379
isCommand(tok) ==
    /\ Len(tok) = 1
    /\ tok[1] \in {"C", "c", "M", "m", "L", "l", "H", "h", "V", "v", "Z", "z"}

Digits == {"0", "1", "2", "3", "4", "5", "6", "7", "8", "9"}

DigitVal(c) ==
    CASE c = "0" -> 0 [] c = "1" -> 1 [] c = "2" -> 2 [] c = "3" -> 3 [] c = "4" -> 4
      [] c = "5" -> 5 [] c = "6" -> 6 [] c = "7" -> 7 [] c = "8" -> 8 [] c = "9" -> 9

\* a token without its sign
Unsigned(tok) == IF tok # <<>> /\ tok[1] \in {"+", "-"} THEN Tail(tok) ELSE tok

\* strconv.ParseFloat accepts the token.  The model knows the decimal form
\* [sign] digits [. digits] with at least one digit; its alphabet has no
\* letter of an exponent, of a hexadecimal float, of inf or of nan.
FloatOK(tok) ==
    /\ \E k \in 1..Len(Unsigned(tok)) : Unsigned(tok)[k] \in Digits
    /\ \A k \in 1..Len(Unsigned(tok)) : Unsigned(tok)[k] \in Digits \cup {"."}
    /\ Cardinality({k \in 1..Len(Unsigned(tok)) : Unsigned(tok)[k] = "."}) <= 1

\* the value of the digits body, read from the left: num / den so far
RECURSIVE DecimalVal(_, _, _, _)
DecimalVal(body, num, den, frac) ==
    IF body = <<>> THEN Rat(num, den)
    ELSE IF Head(body) = "." THEN DecimalVal(Tail(body), num, den, TRUE)
    ELSE DecimalVal(Tail(body), num * 10 + DigitVal(Head(body)),
                    IF frac THEN den * 10 ELSE den, frac)

\* the float strconv.ParseFloat returns for an accepted token
FloatVal(tok) ==
    IF tok[1] = "-" THEN RNeg(DecimalVal(Unsigned(tok), 0, 1, FALSE))
    ELSE DecimalVal(Unsigned(tok), 0, 1, FALSE)

----------------------------------------------------------------------------
(* parseSimplePath (src/svg2gcode.go:210-367)                               *)
(* st holds the locals of the function: pts, cur, start, cmd ("" for 0),    *)
(* closed, i (1-based), and err ("" while no error was returned).           *)

\* line 223
Flatness == Rat(1, 10)

PathStart ==
    [pts |-> <<>>, cur |-> P(0, 0), start |-> P(0, 0), cmd |-> "", closed |-> FALSE,
     i |-> 1, err |-> ""]

\* return pts, closed, err: the points read so far are handed back
PathFailKeeping(st, msg) == [st EXCEPT !.err = msg]

\* return nil, false, err
PathFail(st, msg) == [st EXCEPT !.pts = <<>>, !.closed = FALSE, !.err = msg]

\* a point appended under a Move starts the path anew
AddPointRestart(st, q) ==
    [st EXCEPT !.cur = q,
               !.start = IF Len(st.pts) = 0 \/ st.cmd \in {"M", "m"} THEN q ELSE st.start,
               !.pts = Append(st.pts, q)]

\* lines 262-265 (and 285-288, 301-304, 348-351): cur is appended
AddPoint(st, q) ==
    [st EXCEPT !.cur = q,
               !.start = IF Len(st.pts) = 0 THEN q ELSE st.start,
               !.pts = Append(st.pts, q)]

\* a Close that moves the current point to the start point
CommandTokenMoving(st, c) ==
    IF c \in {"Z", "z"} /\ Len(st.pts) > 0
    THEN [st EXCEPT !.cmd = c, !.i = st.i + 1, !.cur = st.start,
                    !.pts = Append(st.pts, st.start), !.closed = TRUE]
    ELSE [st EXCEPT !.cmd = c, !.i = st.i + 1]

\* lines 228-239: a command token
CommandToken(st, c) ==
    IF c \in {"Z", "z"} /\ Len(st.pts) > 0
    THEN [st EXCEPT !.cmd = c, !.i = st.i + 1,
                    !.pts = Append(st.pts, st.start), !.closed = TRUE]
    ELSE [st EXCEPT !.cmd = c, !.i = st.i + 1]

\* lines 256-273, the pair (x, y) parsed
MoveTo(st, x, y) ==
    [AddPoint(st, IF st.cmd \in {"m", "l"}
                  THEN Pt(RAdd(st.cur.X, x), RAdd(st.cur.Y, y))
                  ELSE Pt(x, y))
        EXCEPT !.i = st.i + 2,
               !.cmd = IF st.cmd = "M" THEN "L" ELSE IF st.cmd = "m" THEN "l" ELSE st.cmd]

\* lines 246-273
MoveLine(tokens, st) ==
    IF st.i + 1 > Len(tokens)
    THEN PathFail(st, "odd number of coordinates after M/L")
    ELSE IF ~FloatOK(tokens[st.i]) \/ ~FloatOK(tokens[st.i + 1])
    THEN PathFail(st, "invalid coordinate pair")
    ELSE MoveTo(st, FloatVal(tokens[st.i]), FloatVal(tokens[st.i + 1]))

\* lines 275-289
Horizontal(tokens, st) ==
    IF ~FloatOK(tokens[st.i]) THEN PathFail(st, "invalid H coordinate")
    ELSE [AddPoint(st, Pt(IF st.cmd = "h" THEN RAdd(st.cur.X, FloatVal(tokens[st.i]))
                          ELSE FloatVal(tokens[st.i]),
                          st.cur.Y))
            EXCEPT !.i = st.i + 1]

\* lines 291-305
Vertical(tokens, st) ==
    IF ~FloatOK(tokens[st.i]) THEN PathFail(st, "invalid V coordinate")
    ELSE [AddPoint(st, Pt(st.cur.X,
                          IF st.cmd = "v" THEN RAdd(st.cur.Y, FloatVal(tokens[st.i]))
                          ELSE FloatVal(tokens[st.i])))
            EXCEPT !.i = st.i + 1]

\* lines 346-352: every point of seg becomes the current point and is appended
RECURSIVE AddPoints(_, _)
AddPoints(st, seg) ==
    IF seg = <<>> THEN st ELSE AddPoints(AddPoint(st, Head(seg)), Tail(seg))

\* lines 340-355, the curve from cur by p1, p2 to p3 flattened to seg
CurveSegment(st, seg, p3) ==
    [(IF Len(seg) = 0 THEN [st EXCEPT !.cur = p3] ELSE AddPoints(st, seg))
        EXCEPT !.i = st.i + 6]

\* lines 328-337: a control point, relative to cur for c
CurvePoint(st, x, y) ==
    IF st.cmd = "c" THEN Pt(RAdd(st.cur.X, x), RAdd(st.cur.Y, y)) ELSE Pt(x, y)

CurveTo(st, p1, p2, p3) ==
    CurveSegment(st, flattenCubicBezier(st.cur, p1, p2, p3, Flatness), p3)

\* lines 309-359: the groups of 6 numbers of a C/c command
RECURSIVE CurveGroups(_, _)
RECURSIVE CurveNext(_, _)

\* lines 355-358
CurveNext(tokens, st) ==
    IF st.i > Len(tokens) \/ isCommand(tokens[st.i]) THEN st
    ELSE CurveGroups(tokens, st)

CurveGroups(tokens, st) ==
    IF st.i + 5 > Len(tokens)
    THEN PathFail(st, "incomplete C/c command; need 6 numbers")
    ELSE IF isCommand(tokens[st.i]) THEN st
    ELSE IF \E k \in 0..5 : ~FloatOK(tokens[st.i + k])
    THEN PathFail(st, "invalid C coordinates")
    ELSE CurveNext(tokens,
            CurveTo(st,
                CurvePoint(st, FloatVal(tokens[st.i]), FloatVal(tokens[st.i + 1])),
                CurvePoint(st, FloatVal(tokens[st.i + 2]), FloatVal(tokens[st.i + 3])),
                CurvePoint(st, FloatVal(tokens[st.i + 4]), FloatVal(tokens[st.i + 5]))))

\* lines 226-363: one iteration of the loop over the tokens
PathStep(tokens, st) ==
    IF isCommand(tokens[st.i]) THEN CommandToken(st, tokens[st.i][1])
    ELSE IF st.cmd = "" THEN PathFail(st, "path data must start with a command (M/m)")
    ELSE IF st.cmd \in {"M", "m", "L", "l"} THEN MoveLine(tokens, st)
    ELSE IF st.cmd \in {"H", "h"} THEN Horizontal(tokens, st)
    ELSE IF st.cmd \in {"V", "v"} THEN Vertical(tokens, st)
    ELSE IF st.cmd \in {"C", "c"} THEN CurveGroups(tokens, st)
    ELSE PathFail(st, "unsupported path command")

\* lines 225-366
RECURSIVE PathLoop(_, _)
PathLoop(tokens, st) ==
    IF st.err # "" \/ st.i > Len(tokens) THEN st
    ELSE PathLoop(tokens, PathStep(tokens, st))

\* what parseSimplePath returns for the tokens
PathResult(st) == [pts |-> st.pts, closed |-> st.closed, err |-> st.err]

\* lines 210-367
parseSimplePath(d) == PathResult(PathLoop(tokenizePathData(d), PathStart))

----------------------------------------------------------------------------
(* The instructions written to w.  Numbers are as %.3f prints them, in     *)
(* thousandths; s is the %q text of a path comment.                        *)

Instr(op, x, y, zz, f) == [op |-> op, x |-> x, y |-> y, z |-> zz, f |-> f, n |-> 0, s |-> <<>>]

Banner == Instr("banner", 0, 0, 0, 0)                 \* (Generated by svg2gcode)
G21 == Instr("G21", 0, 0, 0, 0)
G90 == Instr("G90", 0, 0, 0, 0)
G0Z(zz) == Instr("G0Z", 0, 0, Fmt3(zz), 0)              \* G0 Z%.3f
G0XY(x, y) == Instr("G0XY", Fmt3(x), Fmt3(y), 0, 0)     \* G0 X%.3f Y%.3f
G1Z(zz, f) == Instr("G1Z", 0, 0, Fmt3(zz), Fmt3(f))     \* G1 Z%.3f F%.3f
G1XY(x, y, f) == Instr("G1XY", Fmt3(x), Fmt3(y), 0, Fmt3(f))
PathComment(k, stroke) == [Instr("path", 0, 0, 0, 0) EXCEPT !.n = k, !.s = stroke]
M5 == Instr("M5", 0, 0, 0, 0)
M2 == Instr("M2", 0, 0, 0, 0)

\* fmt.Fprint to w: out keeps the first MaxOut instructions
Emit(o, instrs) ==
    LET all == o \o instrs
    IN  SubSeq(all, 1, Min(Len(all), MaxOut))

----------------------------------------------------------------------------
(* writeGcode (src/svg2gcode.go:426-516) *)

Path(points, closed, stroke) == [Points |-> points, Closed |-> closed, Stroke |-> stroke]

\* a conversion that scales and does not flip the Y axis
writePointUnflipped(pt, c) == Pt(RMul(pt.X, c.Scale), RMul(pt.Y, c.Scale))

\* src/svg2gcode.go:518-522
writePoint(pt, c) ==
    Pt(RMul(pt.X, c.Scale), RMul(RSub(c.SvgHeight, pt.Y), c.Scale))

\* lines 427-430: the header is written first
WriteHeader ==
    /\ pc = "writeGcode"
    /\ out' = Emit(out, <<Banner, G21, G90, G0Z(cfg.SafeZ)>>)
    /\ pc' = "checkDepth"
    /\ UNCHANGED <<paths, compPaths, cfg, targetZ, step, idx, i, z, nextZ, err>>
    /\ UNCHANGED <<pathVars, offsetVars, mainVars, geomVars>>

\* step as lines 437-441 compute it
StepOf(c) ==
    LET s0 == IF RLe(c.StepDown, RZero) THEN RAbs(Float(RSub(c.CutDepth, c.SafeZ)))
              ELSE c.StepDown
    IN  RAbs(s0)

\* lines 432-441
CheckDepth ==
    /\ pc = "checkDepth"
    /\ IF RLe(RZero, cfg.CutDepth)
       THEN /\ err' = "cut depth (cutz) must be negative"
            /\ pc' = "failed"
            /\ UNCHANGED <<targetZ, step>>
       ELSE /\ targetZ' = cfg.CutDepth
            /\ step' = StepOf(cfg)
            /\ pc' = "compensate"
            /\ UNCHANGED err
    /\ UNCHANGED <<paths, compPaths, cfg, out, idx, i, z, nextZ>>
    /\ UNCHANGED <<pathVars, offsetVars, mainVars, geomVars>>

\* lines 456-465: a closed entity is replaced by its offset, or dropped
OffsetEntity(p, offsetPts) ==
    IF Len(offsetPts) < 2 THEN <<>> ELSE <<Path(offsetPts, TRUE, p.Stroke)>>

\* compensation that offsets the open entities as well
RECURSIVE CompPathsAll(_, _, _, _)
CompPathsAll(ps, k, radiusSVG, mode) ==
    IF k > Len(ps) THEN <<>>
    ELSE OffsetEntity(ps[k], offsetPolygon(ps[k].Points, radiusSVG, mode))
         \o CompPathsAll(ps, k + 1, radiusSVG, mode)

\* lines 450-466: compPaths for the entities k..Len(ps)
RECURSIVE CompPaths(_, _, _, _)
CompPaths(ps, k, radiusSVG, mode) ==
    IF k > Len(ps) THEN <<>>
    ELSE (IF ~ps[k].Closed THEN <<ps[k]>>
          ELSE OffsetEntity(ps[k], offsetPolygon(ps[k].Points, radiusSVG, mode)))
         \o CompPaths(ps, k + 1, radiusSVG, mode)

\* lines 444-471
Compensated(ps, c) ==
    IF c.Compensation # "none" /\ RLt(RZero, c.ToolDia)
    THEN CompPaths(ps, 1, RDiv(RDiv(c.ToolDia, RInt(2)), c.Scale), c.Compensation)
    ELSE ps

\* lines 443-472: compPaths is built, the caller's slice is only read
Compensate ==
    /\ pc = "compensate"
    /\ compPaths' = Compensated(paths, cfg)
    /\ idx' = 1
    /\ pc' = "range"
    /\ UNCHANGED <<paths, cfg, out, targetZ, step, i, z, nextZ, err>>
    /\ UNCHANGED <<pathVars, offsetVars, mainVars, geomVars>>

\* lines 474-486: the range loop reaches entity idx
RangePaths ==
    /\ pc = "range"
    /\ idx <= Len(compPaths)
    /\ IF Len(compPaths[idx].Points) = 0
       THEN /\ idx' = idx + 1
            /\ UNCHANGED <<out, z, pc>>
       ELSE LET first == writePoint(compPaths[idx].Points[1], cfg)
            IN  /\ out' = Emit(out, <<PathComment(idx, compPaths[idx].Stroke),
                                      G0XY(first.X, first.Y), G0Z(cfg.SafeZ)>>)
                /\ z' = cfg.SafeZ
                /\ pc' = "plunge"
                /\ UNCHANGED idx
    /\ UNCHANGED <<paths, compPaths, cfg, targetZ, step, i, nextZ, err>>
    /\ UNCHANGED <<pathVars, offsetVars, mainVars, geomVars>>

\* a depth that is not held at the target
NextDepthUnclamped(zz, st, target) == Float(RSub(zz, st))

\* nextZ as lines 488-491 compute it
NextDepth(zz, st, target) ==
    LET nz == Float(RSub(zz, st))
    IN  IF RLt(nz, target) THEN target ELSE nz

\* a pass that also feeds to the first point
PlungeFromFirst ==
    /\ pc = "plunge"
    /\ nextZ' = NextDepth(z, step, targetZ)
    /\ out' = Emit(out, <<G1Z(nextZ', cfg.PlungeFeed)>>)
    /\ i' = 1
    /\ pc' = "cut"
    /\ UNCHANGED <<paths, compPaths, cfg, targetZ, step, idx, z, err>>
    /\ UNCHANGED <<pathVars, offsetVars, mainVars, geomVars>>

\* lines 488-493
Plunge ==
    /\ pc = "plunge"
    /\ nextZ' = NextDepth(z, step, targetZ)
    /\ out' = Emit(out, <<G1Z(nextZ', cfg.PlungeFeed)>>)
    /\ i' = 2
    /\ pc' = "cut"
    /\ UNCHANGED <<paths, compPaths, cfg, targetZ, step, idx, z, err>>
    /\ UNCHANGED <<pathVars, offsetVars, mainVars, geomVars>>

\* lines 495-499: one iteration of the cutting loop, or its end
Cut ==
    /\ pc = "cut"
    /\ IF i <= Len(compPaths[idx].Points)
       THEN LET q == writePoint(compPaths[idx].Points[i], cfg)
            IN  /\ out' = Emit(out, <<G1XY(q.X, q.Y, cfg.CutFeed)>>)
                /\ i' = i + 1
                /\ UNCHANGED pc
       ELSE /\ pc' = "endPass"
            /\ UNCHANGED <<out, i>>
    /\ UNCHANGED <<paths, compPaths, cfg, targetZ, step, idx, z, nextZ, err>>
    /\ UNCHANGED <<pathVars, offsetVars, mainVars, geomVars>>

\* line 504: the rapid move back above the first point
RapidToStart(p, c) == G0XY(writePoint(p.Points[1], c).X, writePoint(p.Points[1], c).Y)

\* the depth the next pass starts from, line 507
PassStart(c, reached) == c.SafeZ

\* a pass after which the tool goes back to the start before it is retracted
EndPassLow ==
    /\ pc = "endPass"
    /\ IF RLe(nextZ, targetZ)
       THEN /\ out' = Emit(out, <<G0Z(cfg.SafeZ)>>)
            /\ idx' = idx + 1
            /\ pc' = "range"
            /\ UNCHANGED z
       ELSE /\ out' = Emit(out, <<RapidToStart(compPaths[idx], cfg), G0Z(cfg.SafeZ)>>)
            /\ z' = PassStart(cfg, nextZ)
            /\ pc' = "plunge"
            /\ UNCHANGED idx
    /\ UNCHANGED <<paths, compPaths, cfg, targetZ, step, i, nextZ, err>>
    /\ UNCHANGED <<pathVars, offsetVars, mainVars, geomVars>>

\* lines 501-510: the pass is the last one, or the tool goes back to the start
EndPass ==
    /\ pc = "endPass"
    /\ IF RLe(nextZ, targetZ)
       THEN /\ out' = Emit(out, <<G0Z(cfg.SafeZ)>>)
            /\ idx' = idx + 1
            /\ pc' = "range"
            /\ UNCHANGED z
       ELSE LET first == writePoint(compPaths[idx].Points[1], cfg)
            IN  /\ out' = Emit(out, <<G0Z(cfg.SafeZ), G0XY(first.X, first.Y)>>)
                /\ z' = PassStart(cfg, nextZ)
                /\ pc' = "plunge"
                /\ UNCHANGED idx
    /\ UNCHANGED <<paths, compPaths, cfg, targetZ, step, i, nextZ, err>>
    /\ UNCHANGED <<pathVars, offsetVars, mainVars, geomVars>>

\* lines 513-515
WriteFooter ==
    /\ pc = "range"
    /\ idx > Len(compPaths)
    /\ out' = Emit(out, <<M5, M2>>)
    /\ pc' = "returned"
    /\ UNCHANGED <<paths, compPaths, cfg, targetZ, step, idx, i, z, nextZ, err>>
    /\ UNCHANGED <<pathVars, offsetVars, mainVars, geomVars>>

writeGcode ==
    \/ WriteHeader
    \/ CheckDepth
    \/ Compensate
    \/ RangePaths
    \/ Plunge
    \/ Cut
    \/ EndPass
    \/ WriteFooter

----------------------------------------------------------------------------
(* writeGcode called on a bounded set of entity lists and configurations *)

Blue == <<"#", "0", "0", "f">>
Black == <<"#", "0", "0", "0">>

DefaultFeed == 300
DefaultPlunge == 120

Config(safeZ, cutZ, stepDown, scale, toolDia, comp, h) ==
    [SafeZ |-> safeZ, CutDepth |-> cutZ, StepDown |-> stepDown,
     CutFeed |-> RInt(DefaultFeed), PlungeFeed |-> RInt(DefaultPlunge),
     Scale |-> scale, ToolDia |-> toolDia, Compensation |-> comp,
     ConstructionColor |-> <<>>, SvgWidth |-> h, SvgHeight |-> h]

\* the zero Config, before main has built one
NoConfig == Config(RZero, RZero, RZero, RZero, RZero, "", RZero)

\* a closed 3 x 4 rectangle, counter-clockwise and clockwise
RectCCW == <<P(0, 0), P(3, 0), P(3, 4), P(0, 4), P(0, 0)>>
RectCW == <<P(0, 0), P(0, 4), P(3, 4), P(3, 0), P(0, 0)>>

\* a closed square of side 10, as path data
SquareData == <<"M", "0", ",", "0", " ", "L", "1", "0", ",", "0", " ", "L", "1", "0", ",", "1", "0", " ", "L", "0", ",", "1", "0", " ", "Z">>

\* the entity parseSVG builds from a path with data d and no transform
PathEntity(d, stroke) == Path(parseSimplePath(d).pts, parseSimplePath(d).closed, stroke)

EmitEntities ==
    { Path(<<>>, FALSE, Black),
      Path(<<P(1, 1)>>, FALSE, Black),
      Path(<<P(0, 0), P(3, 4)>>, FALSE, Blue),
      Path(RectCCW, TRUE, Black),
      Path(<<P(0, 0), P(3, 0), P(0, 0)>>, TRUE, Blue),
      Path(<<P(1, 1)>>, TRUE, Blue),
      PathEntity(SquareData, Black) }

EmitLists ==
    UNION { [1..k -> EmitEntities] : k \in 0..MaxEntities }

\* a depth that is a float while its difference to SafeZ = 1 is none, as
\* -0.2 is for float64: -(1/4 + 1/2^(SigBits+1)) has SigBits significant bits
\* and 1 + 1/4 + 1/2^(SigBits+1) has two more
InexactDepth == Rat(-((2 ^ (SigBits - 1)) + 1), 2 ^ (SigBits + 1))

\* every SafeZ, CutDepth and StepDown without compensation; every mode, tool
\* and scale with one depth, in one pass and in passes of 0.5; the document
\* of height 10; SafeZ at and below CutDepth; a depth whose difference to
\* SafeZ is rounded
EmitConfigs ==
    { Config(RInt(sz), RInt(cz), Rat(sd, 2), RInt(1), RZero, "none", RInt(4)) :
        sz \in {1, 2}, cz \in {-2, -1, 0}, sd \in {-2, 0, 1, 2, 4, 6, 8} }
    \cup { Config(RInt(1), RInt(-1), Rat(sd, 2), RInt(sc), RInt(cm[2]), cm[1], RInt(4)) :
               sd \in {0, 1}, sc \in {1, 2},
               cm \in { <<"none", 0>>, <<"inside", 2>>, <<"outside", 2>>, <<"outside", 0>> } }
    \cup { Config(RInt(1), RInt(-1), RZero, RInt(sc), RZero, "none", RInt(10)) : sc \in {1, 2} }
    \cup { Config(RInt(sz), RInt(-1), Rat(sd, 2), RInt(1), RZero, "none", RInt(4)) :
               sz \in {-3, -1}, sd \in {0, 1} }
    \cup { Config(RInt(1), InexactDepth, Rat(sd, 2), RInt(1), RZero, "none", RInt(4)) :
               sd \in {-2, 0} }

\* the variables of writeGcode before it is called
EmitIdle ==
    /\ paths = <<>>
    /\ compPaths = <<>>
    /\ cfg = NoConfig
    /\ out = <<>>
    /\ targetZ = RZero
    /\ step = RZero
    /\ idx = 0
    /\ i = 0
    /\ z = RZero
    /\ nextZ = RZero
    /\ err = ""

PathIdle ==
    /\ pathD = <<>>
    /\ segs = <<>>
    /\ sep = "spaced"
    /\ parsed = PathResult(PathStart)
    /\ scan = PathStart

OffsetIdle ==
    /\ inPoints = <<>>
    /\ inDelta = RZero
    /\ applied = <<>>
    /\ outPoints = <<>>

\* no call of Mul or Apply is looked at
GeomIdle == calls = <<>>

\* the variables of main before it runs
MainIdle ==
    /\ flags = <<>>
    /\ doc = <<>>
    /\ size = <<RZero, RZero>>
    /\ cc = <<>>
    /\ created = FALSE
    /\ stderr = <<>>
    /\ status = -1
    /\ walk = <<>>

InitEmit ==
    /\ paths \in EmitLists
    /\ compPaths = <<>>
    /\ cfg \in EmitConfigs
    /\ out = <<>>
    /\ pc = "writeGcode"
    /\ targetZ = RZero
    /\ step = RZero
    /\ idx = 0
    /\ i = 0
    /\ z = RZero
    /\ nextZ = RZero
    /\ err = ""
    /\ PathIdle
    /\ OffsetIdle
    /\ MainIdle
    /\ GeomIdle

NextEmit == writeGcode

SpecEmit == InitEmit /\ [][NextEmit]_vars

\* The same machine on fewer inputs, for the behaviours as a whole: one
\* entity at most, no tool diameter (the entities are cut as they are),
\* every integer SafeZ and CutDepth and every StepDown of EmitConfigs.
InitFair ==
    /\ InitEmit
    /\ Len(paths) <= 1
    /\ cfg.Scale = RInt(1)
    /\ cfg.ToolDia = RZero
    /\ cfg.CutDepth.d = 1

\* the program is sequential: a step that can be taken is taken
FairEmit == InitFair /\ [][NextEmit]_vars /\ WF_vars(NextEmit)

----------------------------------------------------------------------------
(* What the claims about writeGcode speak of *)

\* ceil(a / b) for rationals a >= 0, b > 0
CeilDiv(a, b) == -((-(a.n * b.d)) \div (a.d * b.n))

\* D = |CutDepth - SafeZ|
DepthRange(c) == RAbs(RSub(c.CutDepth, c.SafeZ))

\* the index in o of the last path comment, 0 when there is none
RECURSIVE LastComment(_, _)
LastComment(o, k) ==
    IF k = 0 THEN 0
    ELSE IF o[k].op = "path" THEN k
    ELSE LastComment(o, k - 1)

\* the instructions of the block of the entity written last
LastBlock(o) == SubSeq(o, LastComment(o, Len(o)) + 1, Len(o))

\* the plunge moves (G1 Z...) of a block, in order
Plunges(block) == SelectSeq(block, LAMBDA ins : ins.op = "G1Z")

\* the entity written last is finished: the range loop is back at its head
EntityFinished ==
    pc = "range" /\ LastComment(out, Len(out)) > 0 /\ Len(out) < MaxOut

PassesExpected(c) == CeilDiv(DepthRange(c), c.StepDown)

\* C1: with CutDepth < 0 and StepDown s > 0, every non-empty entity gets
\* exactly ceil(|CutDepth - SafeZ| / s) plunge moves, each pass starting
\* from the depth the previous pass reached, the last one at CutDepth.
C1_PassCount ==
    (/\ pc \in {"plunge", "cut", "endPass", "range"}
     /\ RLt(RZero, cfg.StepDown)
     /\ Len(out) < MaxOut)
    => /\ Len(Plunges(LastBlock(out))) <= PassesExpected(cfg)
       /\ (pc = "plunge" /\ Len(Plunges(LastBlock(out))) > 0) => z = nextZ
       /\ EntityFinished =>
            /\ Len(Plunges(LastBlock(out))) = PassesExpected(cfg)
            /\ Plunges(LastBlock(out))[PassesExpected(cfg)].z = Fmt3(cfg.CutDepth)

\* C2: writeGcode terminates: once the depth check has passed (CutDepth < 0),
\* whatever SafeZ and StepDown are, the program end (M2) is written and
\* writeGcode returns.
C2_Terminates == (pc = "compensate") ~> (pc = "returned")

----------------------------------------------------------------------------
(* parseSimplePath called on a bounded set of path data strings *)

Lx(c) == <<c>>

\* the commands a path data string is written from: well-formed ones, ones
\* with too few numbers, a number no float parses, a number without command
Segments ==
    { <<Lx("M"), Lx("0"), Lx("0")>>,
      <<Lx("m"), Lx("1"), Lx("2")>>,
      <<Lx("L"), Lx("2"), Lx("0")>>,
      <<Lx("l"), Lx("1"), Lx("1")>>,
      <<Lx("H"), Lx("2")>>,
      <<Lx("v"), Lx("1")>>,
      <<Lx("Z")>>,
      <<Lx("C"), Lx("0"), Lx("0"), Lx("1"), Lx("0"), Lx("1"), Lx("1")>>,
      <<Lx("M"), Lx("1")>>,
      <<Lx("C"), Lx("0"), Lx("0"), Lx("1")>>,
      <<Lx("H")>>,
      <<Lx("L")>>,
      <<Lx("C")>>,
      <<Lx("1")>>,
      <<Lx("L"), <<"1", "-", "2">>, Lx("0")>> }

\* the lexemes of a list of commands, in order
RECURSIVE Lexemes(_)
Lexemes(ss) == IF ss = <<>> THEN <<>> ELSE Head(ss) \o Lexemes(Tail(ss))

IsLetter(lexeme) == ~FloatOK(lexeme) /\ Len(lexeme) = 1

\* what stands between a lexeme and the next one: a space in the spaced
\* form; in the tight form nothing after a command letter, a comma between
\* two numbers and a space before a command letter ("M0,0 C0,0,1,0,1,1")
Separator(style, lexeme, next) ==
    IF style = "spaced" THEN <<" ">>
    ELSE IF IsLetter(lexeme) THEN <<>>
    ELSE IF IsLetter(next) THEN <<" ">>
    ELSE <<",">>

RECURSIVE Written(_, _)
Written(lexemes, style) ==
    IF lexemes = <<>> THEN <<>>
    ELSE IF Len(lexemes) = 1 THEN Head(lexemes)
    ELSE Head(lexemes) \o Separator(style, lexemes[1], lexemes[2])
            \o Written(Tail(lexemes), style)

SegLists == UNION { [1..k -> Segments] : k \in 0..MaxSegs }

InitPath ==
    /\ segs \in SegLists
    /\ sep \in {"spaced", "tight"}
    /\ pathD = Written(Lexemes(segs), sep)
    /\ parsed = PathResult(PathStart)
    /\ scan = PathStart
    /\ pc = "parseSimplePath"
    /\ EmitIdle
    /\ OffsetIdle
    /\ MainIdle
    /\ GeomIdle

ParsePath ==
    /\ pc = "parseSimplePath"
    /\ parsed' = parseSimplePath(pathD)
    /\ pc' = "parsed"
    /\ UNCHANGED <<pathD, segs, sep, scan>>
    /\ UNCHANGED <<paths, compPaths, cfg, out, targetZ, step, idx, i, z, nextZ, err>>
    /\ UNCHANGED <<offsetVars, mainVars, geomVars>>

NextPath == ParsePath

SpecPath == InitPath /\ [][NextPath]_vars

----------------------------------------------------------------------------
(* What the claims about parseSimplePath speak of *)

\* the tokens parseSimplePath reads for the path data of the state
Tokens == tokenizePathData(pathD)

\* the number of tokens from k on that are no command
RECURSIVE RunLen(_, _)
RunLen(tokens, k) ==
    IF k > Len(tokens) \/ isCommand(tokens[k]) THEN 0
    ELSE 1 + RunLen(tokens, k + 1)

\* the positions of the command tokens with a letter of letters
CommandsAt(tokens, letters) ==
    { k \in 1..Len(tokens) : isCommand(tokens[k]) /\ tokens[k][1] \in letters }

\* a coordinate before any command
BadStart(tokens) == tokens # <<>> /\ ~isCommand(tokens[1])

\* a token that is neither a command nor a number
BadNumber(tokens) ==
    \E k \in 1..Len(tokens) : ~isCommand(tokens[k]) /\ ~FloatOK(tokens[k])

\* a Move/Line followed by an odd number of coordinates
OddPair(tokens) ==
    \E k \in CommandsAt(tokens, {"M", "m", "L", "l"}) : RunLen(tokens, k + 1) % 2 = 1

\* a Curve followed by coordinates that do not make groups of six
PartialCurve(tokens) ==
    \E k \in CommandsAt(tokens, {"C", "c"}) : RunLen(tokens, k + 1) % 6 # 0

\* a coordinate after a Close
AfterClose(tokens) ==
    \E k \in CommandsAt(tokens, {"Z", "z"}) : RunLen(tokens, k + 1) > 0

\* a command followed by fewer coordinates than its arity, none included
TooFew(tokens) ==
    \/ \E k \in CommandsAt(tokens, {"M", "m", "L", "l"}) : RunLen(tokens, k + 1) < 2
    \/ \E k \in CommandsAt(tokens, {"H", "h", "V", "v"}) : RunLen(tokens, k + 1) < 1
    \/ \E k \in CommandsAt(tokens, {"C", "c"}) : RunLen(tokens, k + 1) < 6

\* parseSimplePath returned nil, false, err
Failed(r) == r.err # "" /\ r.pts = <<>> /\ ~r.closed

\* C5: every supported command letter, C and c included, is a token of its
\* own even next to a number, so the path data written without spaces after
\* the command letters ("M0,0 C0,0,1,0,1,1") succeeds whenever the same data
\* written with spaces does, and gives the same points.
SpacedResult == parseSimplePath(Written(Lexemes(segs), "spaced"))

C5_TightAsSpaced ==
    (pc = "parsed" /\ sep = "tight" /\ SpacedResult.err = "")
    => /\ Tokens = Lexemes(segs)
       /\ parsed = SpacedResult

\* C6 as claimed: parseSimplePath fails, with no points and closed = false,
\* when a coordinate comes before any command, when a number does not parse,
\* when a Move/Line or Horizontal/Vertical has fewer coordinates than its
\* arity, and when a Curve has fewer than 6.
C6_FailsOnTooFew ==
    (pc = "parsed" /\ (BadStart(Tokens) \/ BadNumber(Tokens) \/ TooFew(Tokens)))
    => Failed(parsed)

\* C6 as amended: parseSimplePath fails, with no points and closed = false,
\* exactly when a coordinate comes before any command or after a Close, a
\* token is neither a command nor a number, a Move/Line has an odd number of
\* coordinates, or the coordinates of a Curve do not make groups of six;
\* a command followed by no coordinate at all is no error.
C6_Failures ==
    pc = "parsed"
    => /\ (parsed.err # "") <=> (\/ BadStart(Tokens) \/ BadNumber(Tokens)
                                 \/ OddPair(Tokens) \/ PartialCurve(Tokens)
                                 \/ AfterClose(Tokens))
       /\ parsed.err # "" => Failed(parsed)

\* a Curve with three coordinates after two points were read has failed
C6_Witness ==
    /\ pc = "parsed"
    /\ PartialCurve(Tokens)
    /\ ~BadStart(Tokens) /\ ~BadNumber(Tokens) /\ ~OddPair(Tokens)
    /\ Len(Tokens) > 6
    /\ Failed(parsed)

----------------------------------------------------------------------------
(* offsetPolygon called on a bounded set of polylines and deltas *)

\* the points of the polylines: the corners of a 3 x 4 rectangle, so that
\* every distance between two of them (0, 3, 4 or 5) is rational
GridPoints == { P(x, y) : x \in {0, 3}, y \in {0, 4} }

\* at most this many points in a polyline over GridPoints
MaxPoints == 5

GridLines == UNION { [1..k -> GridPoints] : k \in 1..MaxPoints }

\* the corners of the rectangle at (x0, y0), w wide and h high, from the
\* corner (x0, y0) on, first along x
Corners(x0, y0, w, h) ==
    <<P(x0, y0), P(x0 + w, y0), P(x0 + w, y0 + h), P(x0, y0 + h)>>

\* the cycle c read from its corner k on; the cycle read backwards
Rotated(c, k) == [j \in 1..Len(c) |-> c[((j + k - 2) % Len(c)) + 1]]
Reversed(c) == [j \in 1..Len(c) |-> c[Len(c) + 1 - j]]

\* c, or c with its first point repeated at the end
Closings(c) == {c, Append(c, c[1])}

\* axis-aligned rectangles with integer corners: both windings, every
\* start corner, with and without the closing point
Rectangles ==
    UNION { Closings(Rotated(c, k)) \cup Closings(Rotated(Reversed(c), k)) :
              c \in { Corners(x0, x0 + 1, w, h) : x0 \in {0, 1}, w \in {1, 2, 3}, h \in {1, 4} },
              k \in 1..4 }

OffsetInputs == GridLines \cup Rectangles

\* delta as writeGcode derives it from ToolDia and Scale, in halves; the
\* offsetter itself accepts any float, zero included
Deltas == { Rat(k, 2) : k \in {0, 1, 2, 3, 4} }

InitOffset ==
    /\ inPoints \in OffsetInputs
    /\ inDelta \in Deltas
    /\ applied = <<>>
    /\ outPoints = inPoints
    /\ pc = "offsetPolygon"
    /\ EmitIdle
    /\ PathIdle
    /\ MainIdle
    /\ GeomIdle

\* offsetPolygon(inPoints, inDelta, mode)
Offset(mode) ==
    /\ pc = "offsetPolygon"
    /\ applied = <<>>
    /\ outPoints' = offsetPolygon(inPoints, inDelta, mode)
    /\ applied' = <<mode>>
    /\ UNCHANGED <<inPoints, inDelta, pc>>
    /\ UNCHANGED <<paths, compPaths, cfg, out, targetZ, step, idx, i, z, nextZ, err>>
    /\ UNCHANGED <<pathVars, mainVars, geomVars>>

OffsetInside == Offset("inside")
OffsetOutside == Offset("outside")

\* k is a perfect square (46340 is the largest root of a 32-bit integer)
HasRoot(k) == \E r \in 0..Min(k, 46340) : r * r = k

\* every edge of the polyline has a rational length: Hypot is defined on it
RationalLength(e) == HasRoot(SqNorm(e.X, e.Y).n) /\ HasRoot(SqNorm(e.X, e.Y).d)
RationalPoly(poly) == \A j \in 1..Len(poly) : RationalLength(EdgeDir(poly, j))
RationalEdges(points) == Len(points) < 3 \/ RationalPoly(DropClosing(points))

\* the result of an inside offset is offset outside by the same delta (where
\* the lengths of its edges are rational)
OffsetBack ==
    /\ pc = "offsetPolygon"
    /\ applied = <<"inside">>
    /\ RationalEdges(outPoints)
    /\ outPoints' = offsetPolygon(outPoints, inDelta, "outside")
    /\ applied' = <<"inside", "outside">>
    /\ pc' = "offset"
    /\ UNCHANGED <<inPoints, inDelta>>
    /\ UNCHANGED <<paths, compPaths, cfg, out, targetZ, step, idx, i, z, nextZ, err>>
    /\ UNCHANGED <<pathVars, mainVars, geomVars>>

NextOffset == OffsetInside \/ OffsetOutside \/ OffsetBack

SpecOffset == InitOffset /\ [][NextOffset]_vars

----------------------------------------------------------------------------
(* What the claims about offsetPolygon speak of *)

\* the polyline without a closing point equal to its first point
Core(points) ==
    IF Len(points) > 1 /\ points[Len(points)] = points[1]
    THEN SubSeq(points, 1, Len(points) - 1)
    ELSE points

Xs(c) == { c[k].X : k \in 1..Len(c) }
Ys(c) == { c[k].Y : k \in 1..Len(c) }
Least(S) == CHOOSE x \in S : \A y \in S : RLe(x, y)
Greatest(S) == CHOOSE x \in S : \A y \in S : RLe(y, x)

\* c is the four corners of an axis-aligned rectangle, in cyclic order
IsCornerCycle(c) ==
    /\ Len(c) = 4
    /\ Cardinality(Xs(c)) = 2
    /\ Cardinality(Ys(c)) = 2
    /\ Cardinality({ c[k] : k \in 1..4 }) = 4
    /\ \A k \in 1..4 : (c[k].X = c[(k % 4) + 1].X) # (c[k].Y = c[(k % 4) + 1].Y)

IsRectangle(points) == IsCornerCycle(Core(points))

\* the shorter side of the rectangle with the corners c
ShorterSide(c) ==
    Least({RSub(Greatest(Xs(c)), Least(Xs(c))), RSub(Greatest(Ys(c)), Least(Ys(c)))})

\* the corner p of the rectangle c, each of its two sides moved outward by d
MovedCorner(p, c, d) ==
    Pt(IF p.X = Least(Xs(c)) THEN RSub(p.X, d) ELSE RAdd(p.X, d),
       IF p.Y = Least(Ys(c)) THEN RSub(p.Y, d) ELSE RAdd(p.Y, d))

\* the rectangle c with every side moved outward by d, closed
GrownCycle(c, d) ==
    Append([k \in 1..4 |-> MovedCorner(c[k], c, d)], MovedCorner(c[1], c, d))

Outward(d, mode) == IF mode = "outside" THEN d ELSE RNeg(d)

\* delta > 0, and for inside less than half the shorter side
FitsRectangle(points, d, mode) ==
    /\ RLt(RZero, d)
    /\ mode = "inside" => RLt(RMul(RInt(2), d), ShorterSide(Core(points)))

\* a Config with the given compensation and tool, the depths of no matter
ToolConfig(mode, toolDia, scale) ==
    Config(RInt(1), RInt(-1), RZero, scale, toolDia, mode, RInt(4))

\* compPaths of writeGcode for the one closed entity with the points given,
\* the tool diameter chosen so that radiusSVG is d
CompensatedBy(points, d, mode, scale) ==
    Compensated(<<Path(points, TRUE, Black)>>,
                ToolConfig(mode, RMul(RMul(RInt(2), d), scale), scale))

\* C7: offsetPolygon moves every side of an axis-aligned rectangle, given in
\* either winding, by exactly delta: outward with "outside", inward with
\* "inside" (delta less than half the shorter side); the corners keep their
\* order and the first one is repeated at the end.  writeGcode does so with
\* delta = (ToolDia / 2) / Scale.
C7_RectangleOffset ==
    (/\ pc = "offsetPolygon" /\ Len(applied) = 1
     /\ IsRectangle(inPoints)
     /\ FitsRectangle(inPoints, inDelta, applied[1]))
    => /\ outPoints = GrownCycle(Core(inPoints), Outward(inDelta, applied[1]))
       /\ \A sc \in {RInt(1), RInt(2)} :
            CompensatedBy(inPoints, inDelta, applied[1], sc)
              = <<Path(GrownCycle(Core(inPoints), Outward(inDelta, applied[1])), TRUE, Black)>>

\* the closed unit square at (0, 1), offset outside by 1, is the closed
\* square of side 3 at (-1, 0)
C7_Witness ==
    /\ pc = "offsetPolygon"
    /\ applied = <<"outside">>
    /\ inPoints = Append(Corners(0, 1, 1, 1), P(0, 1))
    /\ inDelta = RInt(1)
    /\ outPoints = Append(Corners(-1, 0, 3, 3), P(-1, 0))

\* C8: for every input of at least one point and every delta > 0 the result
\* of offsetPolygon is closed: its last point is its first point; so is
\* every entity writeGcode keeps as Closed after compensation.
C8_ResultClosed ==
    (/\ pc = "offsetPolygon" /\ Len(applied) = 1
     /\ Len(inPoints) >= 1 /\ RLt(RZero, inDelta))
    => /\ outPoints # <<>>
       /\ outPoints[Len(outPoints)] = outPoints[1]
       /\ \A e \in { CompensatedBy(inPoints, inDelta, applied[1], RInt(1))[k] :
                       k \in 1..Len(CompensatedBy(inPoints, inDelta, applied[1], RInt(1))) } :
            e.Closed => e.Points[Len(e.Points)] = e.Points[1]

\* fewer than 3 points after the closing point is dropped, or no area
Degenerate(points) ==
    \/ Len(DropClosing(points)) < 3
    \/ AbsLtEps(SignedArea(DropClosing(points)))

\* C9: in every degenerate case, and when delta is zero, the result of
\* offsetPolygon is the input unchanged: the same points, the closing point
\* of the input included.
C9_DegenerateUnchanged ==
    (/\ pc = "offsetPolygon" /\ Len(applied) = 1
     /\ (inDelta = RZero \/ Degenerate(inPoints)))
    => outPoints = inPoints

\* a closed rectangle: the four corners and the first one again
IsClosedRectangle(points) == Len(points) = 5 /\ IsRectangle(points)

----------------------------------------------------------------------------
(* Package strings, on sequences of characters *)

Uppers == <<"A", "B", "C", "D", "E", "F", "G", "H", "I", "J", "K", "L", "M",
            "N", "O", "P", "Q", "R", "S", "T", "U", "V", "W", "X", "Y", "Z">>
Lowers == <<"a", "b", "c", "d", "e", "f", "g", "h", "i", "j", "k", "l", "m",
            "n", "o", "p", "q", "r", "s", "t", "u", "v", "w", "x", "y", "z">>

LowerOf(c) ==
    IF \E k \in 1..Len(Uppers) : Uppers[k] = c
    THEN Lowers[CHOOSE k \in 1..Len(Uppers) : Uppers[k] = c]
    ELSE c

\* strings.ToLower
ToLower(s) == [k \in 1..Len(s) |-> LowerOf(s[k])]

\* strings.EqualFold, on ASCII
EqualFold(a, b) == ToLower(a) = ToLower(b)

RECURSIVE TrimLeft(_)
TrimLeft(s) == IF s # <<>> /\ IsSpace(Head(s)) THEN TrimLeft(Tail(s)) ELSE s

RECURSIVE TrimRight(_)
TrimRight(s) ==
    IF s # <<>> /\ IsSpace(s[Len(s)]) THEN TrimRight(SubSeq(s, 1, Len(s) - 1)) ELSE s

\* strings.TrimSpace
TrimSpace(s) == TrimRight(TrimLeft(s))

\* strings.HasPrefix
HasPrefix(s, prefix) ==
    Len(s) >= Len(prefix) /\ SubSeq(s, 1, Len(prefix)) = prefix

\* strings.IndexByte, 1-based, 0 when c is not in s
IndexByte(s, c) ==
    IF \E k \in 1..Len(s) : s[k] = c
    THEN CHOOSE k \in 1..Len(s) : s[k] = c /\ \A j \in 1..(k - 1) : s[j] # c
    ELSE 0

\* strings.Split(s, c) for a separator of one character; part is the piece
\* being read
RECURSIVE Split(_, _, _)
Split(s, c, part) ==
    IF s = <<>> THEN <<part>>
    ELSE IF Head(s) = c THEN <<part>> \o Split(Tail(s), c, <<>>)
    ELSE Split(Tail(s), c, Append(part, Head(s)))

\* strings.SplitN(s, c, 2), c found at k (0: not found)
SplitAt(s, k) == IF k = 0 THEN <<s>> ELSE <<SubSeq(s, 1, k - 1), SubSeq(s, k + 1, Len(s))>>
SplitN2(s, c) == SplitAt(s, IndexByte(s, c))

\* strings.ReplaceAll(s, ",", " ")
CommasToSpaces(s) == [k \in 1..Len(s) |-> IF s[k] = "," THEN " " ELSE s[k]]

\* strconv.ParseFloat with the error dropped: 0 for what is no number
ParseFloatOrZero(tok) == IF FloatOK(tok) THEN FloatVal(tok) ELSE RZero

----------------------------------------------------------------------------
(* Stroke colours (src/svg2gcode.go:15-47) *)

\* lines 19-23, s trimmed and in lower case
WithHash(s) ==
    IF s = <<>> THEN <<>>
    ELSE IF ~HasPrefix(s, <<"#">>) THEN <<"#">> \o s
    ELSE s

\* src/svg2gcode.go:15-24
normalizeColor(c) == WithHash(TrimSpace(ToLower(c)))

\* lines 36-44: one part of a style attribute; kv is the part split at ":"
IsStrokePart(kv) ==
    Len(kv) = 2 /\ TrimSpace(ToLower(kv[1])) = <<"s", "t", "r", "o", "k", "e">>

\* lines 34-46: the first part that sets stroke decides
RECURSIVE StrokeOfParts(_)
StrokeOfParts(parts) ==
    IF parts = <<>> THEN <<>>
    ELSE IF IsStrokePart(SplitN2(TrimSpace(Head(parts)), ":"))
    THEN normalizeColor(TrimSpace(SplitN2(TrimSpace(Head(parts)), ":")[2]))
    ELSE StrokeOfParts(Tail(parts))

\* src/svg2gcode.go:26-47
extractStrokeColor(strokeAttr, styleAttr) ==
    IF strokeAttr # <<>> THEN normalizeColor(strokeAttr)
    ELSE IF styleAttr = <<>> THEN <<>>
    ELSE StrokeOfParts(Split(styleAttr, ";", <<>>))

----------------------------------------------------------------------------
(* Transforms (src/geometry.go:9-62) *)

Transform(a, b, c, d, e, f) == [A |-> a, B |-> b, C |-> c, D |-> d, E |-> e, F |-> f]

\* src/geometry.go:13-15
identityTransform == Transform(RInt(1), RZero, RZero, RInt(1), RZero, RZero)

\* a*b + c*d and a*b + c*d + e
Dot(a, b, c, d) == RAdd(RMul(a, b), RMul(c, d))
DotPlus(a, b, c, d, e) == RAdd(Dot(a, b, c, d), e)

\* the product the other way round: apply t, then u
MulReversed(t, u) ==
    Transform(Dot(u.A, t.A, u.C, t.B), Dot(u.B, t.A, u.D, t.B),
              Dot(u.A, t.C, u.C, t.D), Dot(u.B, t.C, u.D, t.D),
              DotPlus(u.A, t.E, u.C, t.F, u.E), DotPlus(u.B, t.E, u.D, t.F, u.F))

\* t.Mul(u), src/geometry.go:17-27
Mul(t, u) ==
    Transform(Dot(t.A, u.A, t.C, u.B), Dot(t.B, u.A, t.D, u.B),
              Dot(t.A, u.C, t.C, u.D), Dot(t.B, u.C, t.D, u.D),
              DotPlus(t.A, u.E, t.C, u.F, t.E), DotPlus(t.B, u.E, t.D, u.F, t.F))

\* t.Apply(p), src/geometry.go:29-34
Apply(t, p) == Pt(DotPlus(t.A, p.X, t.C, p.Y, t.E), DotPlus(t.B, p.X, t.D, p.Y, t.F))

\* lines 46-49: the arguments between the brackets
SplitArgs(args) == IF Len(args) = 1 THEN Split(args[1], " ", <<>>) ELSE args

\* lines 50-57
Translation(args) ==
    Transform(RInt(1), RZero, RZero, RInt(1),
              ParseFloatOrZero(TrimSpace(args[1])),
              IF Len(args) >= 2 THEN ParseFloatOrZero(TrimSpace(args[2])) ELSE RZero)

\* lines 43-58, open and close the places of "(" and ")" (0: none)
TranslateArgs(s, open, close) ==
    IF open >= 1 /\ close > open
    THEN Translation(SplitArgs(Split(SubSeq(s, open + 1, close - 1), ",", <<>>)))
    ELSE identityTransform

\* lines 36-62, s trimmed
TransformOf(s) ==
    IF s = <<>> THEN identityTransform
    ELSE IF HasPrefix(s, <<"t", "r", "a", "n", "s", "l", "a", "t", "e">>)
    THEN TranslateArgs(s, IndexByte(s, "("), IndexByte(s, ")"))
    ELSE identityTransform

\* src/geometry.go:36-62
parseTransformAttr(s) == TransformOf(TrimSpace(s))

----------------------------------------------------------------------------
(* parsePointsList, hasUnsupportedCommands (src/svg2gcode.go:184-206, 383-406) *)

\* what parsePointsList returns
PointsResult(pts, msg) == [pts |-> pts, err |-> msg]

\* lines 198-205: the pairs from field k on
RECURSIVE PointPairs(_, _)
PointPairs(fields, k) ==
    IF k > Len(fields) THEN <<>>
    ELSE <<Pt(FloatVal(fields[k]), FloatVal(fields[k + 1]))>> \o PointPairs(fields, k + 2)

\* lines 193-205
PointsOfFields(fields) ==
    IF Len(fields) % 2 # 0
    THEN PointsResult(<<>>, "odd number of coordinates in points list")
    ELSE IF \E k \in 1..Len(fields) : ~FloatOK(fields[k])
    THEN PointsResult(<<>>, "invalid coordinate pair")
    ELSE PointsResult(PointPairs(fields, 1), "")

\* src/svg2gcode.go:184-206
parsePointsList(s) ==
    IF TrimSpace(s) = <<>> THEN PointsResult(<<>>, "")
    ELSE PointsOfFields(Fields(CommasToSpaces(TrimSpace(s)), <<>>))

IsLetterChar(c) ==
    \E k \in 1..Len(Uppers) : Uppers[k] = c \/ Lowers[k] = c

\* a scan that lets every path through
hasUnsupportedCommandsNever(d) == FALSE

\* src/svg2gcode.go:383-406
hasUnsupportedCommands(d) ==
    \E k \in 1..Len(TrimSpace(d)) :
        /\ IsLetterChar(TrimSpace(d)[k])
        /\ TrimSpace(d)[k] \notin {"M", "m", "L", "l", "H", "h", "V", "v", "Z", "z", "C", "c"}

----------------------------------------------------------------------------
(* parseSVG (src/unnamed/part_000:213-383)                                  *)
(* The document is the sequence of tokens the XML decoder yields: start and *)
(* end elements with the attributes the program reads (<<>> when absent),   *)
(* and "error" where the decoder finds the document malformed.  st holds    *)
(* the locals: result, colorStack, transformStack, w, h, the index k of the *)
(* next token, err, and with a path error the excerpt of d in its text.     *)

\* src/svg2gcode.go:177-182
truncate(s, n) == IF Len(s) <= n THEN s ELSE SubSeq(s, 1, n) \o <<".", ".", ".">>

Token(tok, name) ==
    [tok |-> tok, name |-> name, viewBox |-> <<>>, stroke |-> <<>>, style |-> <<>>,
     transform |-> <<>>, d |-> <<>>, points |-> <<>>]

\* lines 217-218
WalkStart ==
    [result |-> <<>>, colorStack |-> << <<>> >>, transformStack |-> <<identityTransform>>,
     w |-> RZero, h |-> RZero, k |-> 1, err |-> "", excerpt |-> <<>>]

\* an abort that hands back the entities collected so far
WalkFailKeeping(st, msg) == [st EXCEPT !.err = msg]

\* return nil, w, h, err
WalkFail(st, msg) == [st EXCEPT !.result = <<>>, !.err = msg]

Top(stack) == stack[Len(stack)]

\* lines 239-245, parts the fields of the viewBox
ViewBox(st, parts) ==
    IF Len(parts) = 4
    THEN [st EXCEPT !.w = ParseFloatOrZero(parts[3]), !.h = ParseFloatOrZero(parts[4]),
                    !.k = st.k + 1]
    ELSE [st EXCEPT !.k = st.k + 1]

\* lines 231-246
SvgElement(st, t) ==
    IF t.viewBox # <<>> THEN ViewBox(st, Fields(t.viewBox, <<>>))
    ELSE [st EXCEPT !.k = st.k + 1]

\* lines 260-264
GroupColor(st, color) == IF color = <<>> THEN Top(st.colorStack) ELSE color

\* lines 247-268
GroupElement(st, t) ==
    [st EXCEPT !.colorStack = Append(st.colorStack,
                                     GroupColor(st, extractStrokeColor(t.stroke, t.style))),
               !.transformStack = Append(st.transformStack,
                                         Mul(Top(st.transformStack),
                                             parseTransformAttr(t.transform))),
               !.k = st.k + 1]

\* an end of group that leaves the stacks as they are
GroupEndKeeping(st) == [st EXCEPT !.k = st.k + 1]

\* lines 370-378
GroupEnd(st) ==
    [st EXCEPT !.colorStack = IF Len(st.colorStack) > 1
                              THEN SubSeq(st.colorStack, 1, Len(st.colorStack) - 1)
                              ELSE st.colorStack,
               !.transformStack = IF Len(st.transformStack) > 1
                                  THEN SubSeq(st.transformStack, 1, Len(st.transformStack) - 1)
                                  ELSE st.transformStack,
               !.k = st.k + 1]

\* dec.DecodeElement reads up to the end of the element begun at k - 1: the
\* index after its end element, 0 when the document ends or is malformed
\* before that
RECURSIVE ElementEnd(_, _, _)
ElementEnd(tokens, k, depth) ==
    IF k > Len(tokens) \/ tokens[k].tok = "error" THEN 0
    ELSE IF tokens[k].tok = "start" THEN ElementEnd(tokens, k + 1, depth + 1)
    ELSE IF depth = 0 THEN k + 1
    ELSE ElementEnd(tokens, k + 1, depth - 1)

\* lines 291-294: the stroke of the element, or of the group around it
StrokeOf(st, t) == GroupColor(st, extractStrokeColor(t.stroke, t.style))

\* lines 286-288: the current transform applied to every point
Placed(st, pts) == [j \in 1..Len(pts) |-> Apply(Top(st.transformStack), pts[j])]

\* lines 355-357
AutoClosed(pts) ==
    IF ~almostEqualPoint(pts[1], pts[Len(pts)]) THEN Append(pts, pts[1]) ELSE pts

\* result = append(result, Path{...}) and the next token
Collect(st, entity, next) == [st EXCEPT !.result = Append(st.result, entity), !.k = next]

\* lines 279-300, r what parseSimplePath returned
PathParsed(st, t, r, next) ==
    IF r.err # ""
    THEN [WalkFail(st, "parse path") EXCEPT !.excerpt = truncate(TrimSpace(t.d), 40)]
    ELSE IF Len(r.pts) = 0 THEN [st EXCEPT !.k = next]
    ELSE Collect(st, Path(Placed(st, r.pts), r.closed, StrokeOf(st, t)), next)

\* lines 270-306
PathElement(st, t, next) ==
    IF next = 0 THEN WalkFail(st, "decode <path>")
    ELSE IF TrimSpace(t.d) = <<>> \/ hasUnsupportedCommands(TrimSpace(t.d))
    THEN [st EXCEPT !.k = next]
    ELSE PathParsed(st, t, parseSimplePath(TrimSpace(t.d)), next)

\* a walker that marks a polyline closed when it returns to its first point
PolylineParsedCoincident(st, t, r, next) ==
    IF r.err # "" THEN WalkFail(st, "parse polyline points")
    ELSE IF Len(r.pts) = 0 THEN [st EXCEPT !.k = next]
    ELSE Collect(st, Path(Placed(st, r.pts), almostEqualPoint(r.pts[1], r.pts[Len(r.pts)]),
                          StrokeOf(st, t)), next)

\* lines 316-334, r what parsePointsList returned
PolylineParsed(st, t, r, next) ==
    IF r.err # "" THEN WalkFail(st, "parse polyline points")
    ELSE IF Len(r.pts) = 0 THEN [st EXCEPT !.k = next]
    ELSE Collect(st, Path(Placed(st, r.pts), FALSE, StrokeOf(st, t)), next)

\* lines 308-335
PolylineElement(st, t, next) ==
    IF next = 0 THEN WalkFail(st, "decode <polyline>")
    ELSE PolylineParsed(st, t, parsePointsList(t.points), next)

\* lines 345-366
PolygonParsed(st, t, r, next) ==
    IF r.err # "" THEN WalkFail(st, "parse polygon points")
    ELSE IF Len(r.pts) = 0 THEN [st EXCEPT !.k = next]
    ELSE Collect(st, Path(AutoClosed(Placed(st, r.pts)), TRUE, StrokeOf(st, t)), next)

\* lines 337-367
PolygonElement(st, t, next) ==
    IF next = 0 THEN WalkFail(st, "decode <polygon>")
    ELSE PolygonParsed(st, t, parsePointsList(t.points), next)

\* lines 221-379: one token
TokenStep(tokens, st, t) ==
    IF t.tok = "error" THEN WalkFail(st, "decode token")
    ELSE IF t.tok = "start" /\ t.name = "svg" THEN SvgElement(st, t)
    ELSE IF t.tok = "start" /\ t.name = "g" THEN GroupElement(st, t)
    ELSE IF t.tok = "start" /\ t.name = "path"
    THEN PathElement(st, t, ElementEnd(tokens, st.k + 1, 0))
    ELSE IF t.tok = "start" /\ t.name = "polyline"
    THEN PolylineElement(st, t, ElementEnd(tokens, st.k + 1, 0))
    ELSE IF t.tok = "start" /\ t.name = "polygon"
    THEN PolygonElement(st, t, ElementEnd(tokens, st.k + 1, 0))
    ELSE IF t.tok = "end" /\ t.name = "g" THEN GroupEnd(st)
    ELSE [st EXCEPT !.k = st.k + 1]

\* lines 220-380
RECURSIVE Walk(_, _)
Walk(tokens, st) ==
    IF st.err # "" \/ st.k > Len(tokens) THEN st
    ELSE Walk(tokens, TokenStep(tokens, st, tokens[st.k]))

\* src/unnamed/part_000:213-383: paths, w, h, err
parseSVG(tokens) == Walk(tokens, WalkStart)

----------------------------------------------------------------------------
(* main (src/svg2gcode.go:90-175)                                           *)
(* The file system holds one file, "in.svg", whose tokens are doc.          *)

InputFile == "in.svg"

None == <<"n", "o", "n", "e">>
Inside == <<"i", "n", "s", "i", "d", "e">>
Outside == <<"o", "u", "t", "s", "i", "d", "e">>

\* the default of -construction, line 100
ConstructionDefault == <<"#", "0", "0", "0", "0", "f", "f">>

\* os.Exit(1) after a message on os.Stderr
Exit1(msg) ==
    /\ stderr' = Append(stderr, msg)
    /\ status' = 1
    /\ pc' = "exit"

\* lines 104-116
OpenInput ==
    /\ pc = "main"
    /\ IF flags.in = "" THEN Exit1("error: -in SVG file is required")
       ELSE IF flags.in # InputFile THEN Exit1("error opening SVG")
       ELSE pc' = "parseSVG" /\ UNCHANGED <<stderr, status>>
    /\ UNCHANGED <<paths, compPaths, cfg, out, targetZ, step, idx, i, z, nextZ, err>>
    /\ UNCHANGED <<walk, flags, doc, size, cc, created>>
    /\ UNCHANGED <<pathVars, offsetVars, geomVars>>

\* lines 123-125
Warned(entities) ==
    IF Len(entities) = 0
    THEN Append(stderr, "warning: no paths / polylines / polygons found")
    ELSE stderr

\* lines 118-125
ParseInput ==
    /\ pc = "parseSVG"
    /\ IF parseSVG(doc).err # ""
       THEN /\ Exit1("error parsing SVG")
            /\ UNCHANGED <<paths, size>>
       ELSE /\ paths' = parseSVG(doc).result
            /\ size' = <<parseSVG(doc).w, parseSVG(doc).h>>
            /\ stderr' = Warned(parseSVG(doc).result)
            /\ pc' = "create"
            /\ UNCHANGED status
    /\ UNCHANGED <<compPaths, cfg, out, targetZ, step, idx, i, z, nextZ, err>>
    /\ UNCHANGED <<walk, flags, doc, cc, created>>
    /\ UNCHANGED <<pathVars, offsetVars, geomVars>>

\* lines 127-136: the output is os.Stdout, or the file is created, or
\* os.Create fails
CreateOutput ==
    /\ pc = "create"
    /\ \/ /\ flags.out \in {"", "-"}
          /\ pc' = "config"
          /\ UNCHANGED <<created, stderr, status>>
       \/ /\ flags.out \notin {"", "-"}
          /\ created' = TRUE
          /\ pc' = "config"
          /\ UNCHANGED <<stderr, status>>
       \/ /\ flags.out \notin {"", "-"}
          /\ Exit1("error creating output file")
          /\ UNCHANGED created
    /\ UNCHANGED <<paths, compPaths, cfg, out, targetZ, step, idx, i, z, nextZ, err>>
    /\ UNCHANGED <<walk, flags, doc, size, cc>>
    /\ UNCHANGED <<pathVars, offsetVars, geomVars>>

\* the mode a -comp value in lower case names, lines 158-169
ModeOf(comp) ==
    IF comp = None \/ comp = <<>> THEN "none"
    ELSE IF comp = Inside THEN "inside"
    ELSE IF comp = Outside THEN "outside"
    ELSE "invalid"

\* lines 138-149: ConstructionColor is not set
ConfigOf(f, wh) ==
    [SafeZ |-> f.safez, CutDepth |-> f.cutz, StepDown |-> f.stepdown,
     CutFeed |-> f.feed, PlungeFeed |-> f.plunge, Scale |-> f.scale,
     ToolDia |-> f.tooldia, Compensation |-> ModeOf(ToLower(f.comp)),
     ConstructionColor |-> <<>>, SvgWidth |-> wh[1], SvgHeight |-> wh[2]]

\* lines 151-156
ConstructionOf(construction) ==
    IF EqualFold(TrimSpace(construction), None) \/ TrimSpace(construction) = <<>>
    THEN <<>>
    ELSE normalizeColor(TrimSpace(construction))

\* lines 138-169: cfg and cc are set, the compensation is checked
Configure ==
    /\ pc = "config"
    /\ cfg' = ConfigOf(flags, size)
    /\ cc' = ConstructionOf(flags.construction)
    /\ IF cfg'.Compensation = "invalid" THEN Exit1("error: invalid -comp")
       ELSE IF cfg'.Compensation \in {"inside", "outside"} /\ RLe(cfg'.ToolDia, RZero)
       THEN Exit1("error: -tooldia must be > 0 when -comp is inside or outside")
       ELSE pc' = "writeGcode" /\ UNCHANGED <<stderr, status>>
    /\ UNCHANGED <<paths, compPaths, out, targetZ, step, idx, i, z, nextZ, err>>
    /\ UNCHANGED <<walk, flags, doc, size, created>>
    /\ UNCHANGED <<pathVars, offsetVars, geomVars>>

\* lines 171-175: writeGcode has returned
Finish ==
    /\ pc \in {"failed", "returned"}
    /\ IF pc = "failed" THEN Exit1("error writing G-code")
       ELSE status' = 0 /\ pc' = "exit" /\ UNCHANGED stderr
    /\ UNCHANGED <<paths, compPaths, cfg, out, targetZ, step, idx, i, z, nextZ, err>>
    /\ UNCHANGED <<walk, flags, doc, size, cc, created>>
    /\ UNCHANGED <<pathVars, offsetVars, geomVars>>

main ==
    \/ OpenInput
    \/ ParseInput
    \/ CreateOutput
    \/ Configure
    \/ writeGcode
    \/ Finish

----------------------------------------------------------------------------
(* main run on a bounded set of command lines and documents *)

\* at most this many elements, each alone or in a group, in a document
MaxItems == 2

LineData == <<"M", " ", "0", " ", "0", " ", "L", " ", "3", " ", "0">>
ShortData == <<"M", " ", "1">>
ArcData == <<"M", " ", "0", " ", "0", " ", "A", " ", "1">>
RectPoints == <<"0", ",", "0", " ", "3", ",", "0", " ", "3", ",", "4", " ", "0", ",", "4">>
LinePoints == <<"0", ",", "0", " ", "3", ",", "4">>
StyleBlue == <<"f", "i", "l", "l", ":", "n", "o", "n", "e", ";",
               "s", "t", "r", "o", "k", "e", ":", "#", "0", "0", "0", "0", "F", "F">>
BareBlue == <<"0", "0", "0", "0", "f", "f">>
ViewBox4 == <<"0", " ", "0", " ", "4", " ", "4">>
Translate12 == <<"t", "r", "a", "n", "s", "l", "a", "t", "e", "(", "1", ",", "2", ")">>

\* <name .../> as the decoder yields it
Element(start) == <<start, Token("end", start.name)>>

PathElem(d, stroke, style) ==
    Element([Token("start", "path") EXCEPT !.d = d, !.stroke = stroke, !.style = style])

PolyElem(name, points, stroke) ==
    Element([Token("start", name) EXCEPT !.points = points, !.stroke = stroke])

\* <g stroke transform> body </g>
Group(stroke, transform, body) ==
    <<[Token("start", "g") EXCEPT !.stroke = stroke, !.transform = transform]>>
        \o body \o <<Token("end", "g")>>

Leaves ==
    { PathElem(LineData, ConstructionDefault, <<>>),
      PathElem(LineData, <<>>, <<>>),
      PathElem(LineData, <<>>, StyleBlue),
      PolyElem("polygon", RectPoints, Black),
      PolyElem("polyline", LinePoints, BareBlue),
      PathElem(ShortData, <<>>, <<>>),
      PathElem(ArcData, Black, <<>>) }

Items ==
    Leaves \cup { Group(ConstructionDefault, <<>>, l) : l \in Leaves }
           \cup { Group(<<>>, Translate12, l) : l \in Leaves }

RECURSIVE Concat(_)
Concat(ss) == IF ss = <<>> THEN <<>> ELSE Head(ss) \o Concat(Tail(ss))

\* <svg viewBox="0 0 4 4"> body </svg>
Svg(body) ==
    <<[Token("start", "svg") EXCEPT !.viewBox = ViewBox4]>> \o body \o <<Token("end", "svg")>>

\* a document that ends in the middle of the svg element
Truncated(body) ==
    <<[Token("start", "svg") EXCEPT !.viewBox = ViewBox4]>> \o body \o <<Token("error", "")>>

Docs ==
    { Svg(Concat(items)) : items \in UNION { [1..k -> Items] : k \in 0..MaxItems } }
        \cup { Truncated(PathElem(LineData, <<>>, <<>>)) }

Flags(inPath, outPath, cutz, comp, toolDia, construction) ==
    [in |-> inPath, out |-> outPath, safez |-> RInt(1), cutz |-> RInt(cutz),
     stepdown |-> RZero, feed |-> RInt(DefaultFeed), plunge |-> RInt(DefaultPlunge),
     scale |-> RInt(1), comp |-> comp, tooldia |-> RInt(toolDia),
     construction |-> construction]

\* command lines that name the input file
CommandLines ==
    { Flags(InputFile, o, cz, cm[1], cm[2], co) :
        o \in {"", "out.nc"}, cz \in {-1, 0},
        cm \in { <<None, 0>>, <<<<"O", "u", "t", "s", "i", "d", "e">>, 2>>,
                 <<Inside, 0>>, <<<<"i", "n">>, 2>> },
        co \in { ConstructionDefault, None, <<" ", "#", "0", "0", "0", " ">> } }

\* command lines without -in, or naming a file that does not exist
NoInput ==
    { Flags(f, "", -1, None, 0, ConstructionDefault) : f \in {"", "missing.svg"} }

InitMain ==
    /\ \/ flags \in CommandLines /\ doc \in Docs
       \/ flags \in NoInput /\ doc = Svg(<<>>)
    /\ pc = "main"
    /\ size = <<RZero, RZero>>
    /\ cc = <<>>
    /\ created = FALSE
    /\ stderr = <<>>
    /\ status = -1
    /\ walk = <<>>
    /\ EmitIdle
    /\ PathIdle
    /\ OffsetIdle
    /\ GeomIdle

NextMain == main

SpecMain == InitMain /\ [][NextMain]_vars

----------------------------------------------------------------------------
(* What the claims about main speak of *)

\* the run has ended with a configuration error: the one of writeGcode
\* (CutDepth >= 0) or the one of main (inside/outside without a tool)
ConfigurationError ==
    /\ pc = "exit"
    /\ status = 1
    /\ \/ err = "cut depth (cutz) must be negative"
       \/ stderr[Len(stderr)] = "error: -tooldia must be > 0 when -comp is inside or outside"

\* C3: a configuration error is reported before anything is emitted: when
\* the run fails with one, the output holds no instruction at all.
C3_NothingBeforeConfigError == ConfigurationError => out = <<>>

\* the strokes of the path comments of o, one for every entity block
BlockStrokes(o) == { o[k].s : k \in { j \in 1..Len(o) : o[j].op = "path" } }

\* C4: no path, polyline or polygon whose resolved stroke is the
\* construction colour gets an entity block in the output (the filter is
\* off when the colour is empty or "none").
C4_ConstructionIgnored ==
    (pc = "exit" /\ status = 0 /\ cc # <<>>) => cc \notin BlockStrokes(out)

----------------------------------------------------------------------------
(* parseSVG run token by token on a bounded set of documents *)

\* at most this many groups and leaf elements in a document
MaxNodes == 3

ReturnData == <<"M", " ", "0", " ", "0", " ", "L", " ", "3", " ", "0", " ", "L", " ", "0", " ", "0">>
CloseData == <<"M", " ", "0", " ", "0", " ", "L", " ", "3", " ", "0", " ", "Z">>
LoopPoints == <<"0", ",", "0", " ", "3", ",", "0", " ", "0", ",", "0">>
EarlyCloseData == <<"Z", " ", "M", " ", "0", " ", "0", " ", "L", " ", "3", " ", "0">>
Translate30 == <<"t", "r", "a", "n", "s", "l", "a", "t", "e", "(", "3", ",", "0", ")">>

\* the leaf elements of the documents
LeafList ==
    << PathElem(ReturnData, <<>>, <<>>),
       PathElem(CloseData, Black, <<>>),
       PathElem(EarlyCloseData, <<>>, <<>>),
       PathElem(ArcData, Black, <<>>),
       PathElem(ShortData, <<>>, <<>>),
       PolyElem("polyline", LoopPoints, BareBlue),
       PolyElem("polyline", LinePoints, <<>>),
       PolyElem("polygon", RectPoints, <<>>) >>

\* <g stroke transform>
GroupOpen(stroke, transform) ==
    <<[Token("start", "g") EXCEPT !.stroke = stroke, !.transform = transform]>>

\* the start tags of the groups of the documents
OpenList ==
    << GroupOpen(ConstructionDefault, <<>>),
       GroupOpen(<<>>, Translate12),
       GroupOpen(Black, Translate30) >>

\* </g>
GroupClose == <<Token("end", "g")>>

\* A document body of n nodes is told by the depth and the kind of every
\* node, in document order: kind l is leaf l of LeafList, or the group that
\* starts with tag l - Len(LeafList) of OpenList.
IsGroupKind(l) == l > Len(LeafList)

NodeTokens(l) == IF IsGroupKind(l) THEN OpenList[l - Len(LeafList)] ELSE LeafList[l]

\* the groups open after node j
OpenAfter(dep, kind, j) ==
    IF j = 0 THEN 0 ELSE dep[j] + (IF IsGroupKind(kind[j]) THEN 1 ELSE 0)

\* node j is at the top level, beside the node before it, inside it when
\* that is a group, or beside one of the groups around it
WellNested(dep, kind) ==
    \A j \in 1..Len(dep) : dep[j] <= OpenAfter(dep, kind, j - 1)

RECURSIVE Closes(_)
Closes(n) == IF n <= 0 THEN <<>> ELSE GroupClose \o Closes(n - 1)

\* the tokens of the nodes j.. and of the end tags around them
RECURSIVE Render(_, _, _)
Render(dep, kind, j) ==
    IF j > Len(dep) THEN Closes(OpenAfter(dep, kind, Len(dep)))
    ELSE Closes(OpenAfter(dep, kind, j - 1) - dep[j])
             \o NodeTokens(kind[j]) \o Render(dep, kind, j + 1)

Shapes(n) ==
    { sh \in [1..n -> 0..(n - 1)] \X [1..n -> 1..(Len(LeafList) + Len(OpenList))] :
        WellNested(sh[1], sh[2]) }

WalkDocs ==
    { Svg(Render(sh[1], sh[2], 1)) : sh \in UNION { Shapes(n) : n \in 0..MaxNodes } }

InitWalk ==
    /\ doc \in WalkDocs
    /\ walk = WalkStart
    /\ pc = "walk"
    /\ flags = <<>>
    /\ size = <<RZero, RZero>>
    /\ cc = <<>>
    /\ created = FALSE
    /\ stderr = <<>>
    /\ status = -1
    /\ EmitIdle
    /\ PathIdle
    /\ OffsetIdle
    /\ GeomIdle

\* lines 220-380: one turn of the loop, on the token dec.Token() yields
ReadToken ==
    /\ pc = "walk"
    /\ walk.err = ""
    /\ walk.k <= Len(doc)
    /\ walk' = TokenStep(doc, walk, doc[walk.k])
    /\ UNCHANGED <<flags, doc, size, cc, created, stderr, status>>
    /\ UNCHANGED <<emitVars, pathVars, offsetVars, geomVars>>

\* lines 226, 276, 287, 314, 318, 343, 347, 382: parseSVG returns
ReturnWalk ==
    /\ pc = "walk"
    /\ walk.err # "" \/ walk.k > Len(doc)
    /\ paths' = walk.result
    /\ size' = <<walk.w, walk.h>>
    /\ err' = walk.err
    /\ pc' = "walked"
    /\ UNCHANGED <<compPaths, cfg, out, targetZ, step, idx, i, z, nextZ>>
    /\ UNCHANGED <<walk, flags, doc, cc, created, stderr, status>>
    /\ UNCHANGED <<pathVars, offsetVars, geomVars>>

NextWalk == ReadToken \/ ReturnWalk

SpecWalk == InitWalk /\ [][NextWalk]_vars

----------------------------------------------------------------------------
(* What the claims about parseSVG speak of *)

\* the token the loop is about to read
Current == doc[walk.k]

\* this step of the loop appends an entity to result
Appends ==
    /\ pc = "walk"
    /\ walk.err = ""
    /\ walk.k <= Len(doc)
    /\ Len(walk'.result) = Len(walk.result) + 1

\* the entity this step appends
Appended == walk'.result[Len(walk'.result)]

\* the last point of an entity coincides with its first
Coincident(e) == almostEqualPoint(e.Points[1], e.Points[Len(e.Points)])

\* the data of a path element holds a close command
HasClose(t) ==
    /\ t.name = "path"
    /\ \E j \in 1..Len(tokenizePathData(TrimSpace(t.d))) :
          tokenizePathData(TrimSpace(t.d))[j] \in {<<"Z">>, <<"z">>}

\* the data of a path element holds a close command after a coordinate
CloseIssued(t) ==
    /\ t.name = "path"
    /\ \E j \in 1..Len(tokenizePathData(TrimSpace(t.d))) :
          /\ tokenizePathData(TrimSpace(t.d))[j] \in {<<"Z">>, <<"z">>}
          /\ \E n \in 1..(j - 1) : ~isCommand(tokenizePathData(TrimSpace(t.d))[n])

\* C11 as stated: an entity is closed exactly when its last point coincides
\* with its first or its element issued a close command.
C11_ClosedIffCoincident ==
    [][Appends => (Appended.Closed <=> (Coincident(Appended) \/ HasClose(Current)))]_vars

\* C11: an entity built from a path is closed exactly when its data holds
\* a close command after a point, one built from a polyline is never closed (even when
\* its last point coincides with its first) and one built from a polygon is
\* always closed; every closed entity ends where it starts.
C11_ClosedByElement ==
    [][Appends =>
        /\ Appended.Closed <=> (Current.name = "polygon" \/ CloseIssued(Current))
        /\ (Current.name = "polygon" /\ Len(Appended.Points) > 0) => Coincident(Appended)]_vars

\* a polyline that returns to its first point has been collected as an
\* open entity, and a path with a close command as a closed one
C11_Witness ==
    /\ pc = "walked"
    /\ \E j \in 1..Len(paths) : ~paths[j].Closed /\ Coincident(paths[j])
                                /\ paths[j].Stroke = normalizeColor(BareBlue)
    /\ \E j \in 1..Len(paths) : paths[j].Closed /\ paths[j].Stroke = Black

\* the path commands of SVG that the program does not interpret
ForeignLetters == {"A", "a", "Q", "q", "S", "s", "T", "t"}

\* the start of a <path> whose data holds such a command
ForeignPath(t) ==
    /\ t.tok = "start"
    /\ t.name = "path"
    /\ \E k \in 1..Len(t.d) : t.d[k] \in ForeignLetters

\* the tokens from k on without the <path> elements that hold such a command
RECURSIVE WithoutForeign(_, _)
WithoutForeign(tokens, k) ==
    IF k > Len(tokens) THEN <<>>
    ELSE IF ForeignPath(tokens[k]) THEN WithoutForeign(tokens, k + 2)
    ELSE <<tokens[k]>> \o WithoutForeign(tokens, k + 1)

\* C16: the step that reads a <path> with a command outside M L H V Z C
\* passes over the whole element and changes nothing else: no entity, no
\* error, the same stacks and size; and parseSVG returns what it returns for
\* the document without these elements.
C16_ForeignPathSkipped ==
    [][/\ (pc = "walk" /\ walk.err = "" /\ walk.k <= Len(doc) /\ ForeignPath(Current)) =>
             walk' = [walk EXCEPT !.k = walk.k + 2]
       /\ (pc = "walk" /\ pc' = "walked") =>
             /\ paths' = parseSVG(WithoutForeign(doc, 1)).result
             /\ err' = parseSVG(WithoutForeign(doc, 1)).err]_vars

\* a path with an arc stood between two elements that were collected
C16_Witness ==
    /\ pc = "walked"
    /\ err = ""
    /\ Len(paths) = 2
    /\ \E j \in 3..(Len(doc) - 2) :
          /\ ForeignPath(doc[j])
          /\ doc[j - 2].name = "polyline"
          /\ doc[j + 2].name = "polygon"

\* the indices of the start tags of the groups that are open before token k,
\* the outermost first (j the token reached, open the groups open before it)
RECURSIVE OpenGroups(_, _, _, _)
OpenGroups(tokens, j, k, open) ==
    IF j >= k THEN open
    ELSE IF tokens[j].name # "g" THEN OpenGroups(tokens, j + 1, k, open)
    ELSE IF tokens[j].tok = "start" THEN OpenGroups(tokens, j + 1, k, Append(open, j))
    ELSE OpenGroups(tokens, j + 1, k, SubSeq(open, 1, Len(open) - 1))

Enclosing(k) == OpenGroups(doc, 1, k, <<>>)

\* p moved by the transforms of the groups gs[1..n]: the innermost is
\* applied first
RECURSIVE Moved(_, _, _, _)
Moved(tokens, gs, n, p) ==
    IF n = 0 THEN p
    ELSE Moved(tokens, gs, n - 1, Apply(parseTransformAttr(tokens[gs[n]].transform), p))

\* the stroke of the innermost of the groups gs[1..n] that sets one
RECURSIVE NearestStroke(_, _, _)
NearestStroke(tokens, gs, n) ==
    IF n = 0 THEN <<>>
    ELSE IF extractStrokeColor(tokens[gs[n]].stroke, tokens[gs[n]].style) # <<>>
    THEN extractStrokeColor(tokens[gs[n]].stroke, tokens[gs[n]].style)
    ELSE NearestStroke(tokens, gs, n - 1)

\* the points a leaf element holds, before any transform
SourcePoints(t) ==
    IF t.name = "path" THEN parseSimplePath(TrimSpace(t.d)).pts
    ELSE parsePointsList(t.points).pts

\* the stroke a leaf element sets, <<>> when it sets none
OwnStroke(t) == extractStrokeColor(t.stroke, t.style)

\* C17: before and after every step both stacks have one entry more than
\* there are open groups; the points of an entity are the points of its
\* element moved by the transforms of exactly the open groups, the innermost
\* applied first, and its stroke, when the element sets none, is the stroke
\* of the innermost open group that sets one.
C17_GroupStack ==
    [][/\ Len(walk.colorStack) = Len(Enclosing(walk.k)) + 1
       /\ Len(walk.transformStack) = Len(Enclosing(walk.k)) + 1
       /\ Len(walk'.colorStack) = Len(Enclosing(walk'.k)) + 1
       /\ Len(walk'.transformStack) = Len(Enclosing(walk'.k)) + 1
       /\ Appends =>
             /\ \A j \in 1..Len(SourcePoints(Current)) :
                   Appended.Points[j] = Moved(doc, Enclosing(walk.k), Len(Enclosing(walk.k)),
                                              SourcePoints(Current)[j])
             /\ Appended.Stroke =
                   IF OwnStroke(Current) # <<>> THEN OwnStroke(Current)
                   ELSE NearestStroke(doc, Enclosing(walk.k), Len(Enclosing(walk.k)))]_vars

\* a polyline from (0,0) without a stroke, inside a group moved by (1,2),
\* inside a black group moved by (3,0), was collected black from (4,2)
C17_Witness ==
    /\ pc = "walked"
    /\ Len(paths) = 1
    /\ Len(doc) = 8
    /\ doc[2].transform = Translate30
    /\ doc[3].transform = Translate12
    /\ doc[4].points = LinePoints
    /\ paths[1].Points[1] = P(4, 2)
    /\ paths[1].Stroke = normalizeColor(Black)

----------------------------------------------------------------------------
(* What the claims about the order of the output speak of *)

\* the linear move to point j of entity e
LinearTo(e, j, c) ==
    G1XY(writePoint(e.Points[j], c).X, writePoint(e.Points[j], c).Y, c.CutFeed)

\* the rapid move above the first point of entity e
RapidToFirst(e, c) == G0XY(writePoint(e.Points[1], c).X, writePoint(e.Points[1], c).Y)

\* o holds from k on one pass over e: a plunge, then the linear moves to the
\* points 2..n in order
IsPass(o, k, e, c) ==
    /\ k + Len(e.Points) - 1 <= Len(o)
    /\ o[k].op = "G1Z"
    /\ \A j \in 2..Len(e.Points) : o[k + j - 1] = LinearTo(e, j, c)

\* the index after the passes over e that o holds from k on, 0 when o does
\* not hold passes there: every pass but the last is followed by the retract
\* and the rapid move back to the first point, the last by the retract
RECURSIVE PassesEnd(_, _, _, _)
PassesEnd(o, k, e, c) ==
    IF ~IsPass(o, k, e, c) \/ k + Len(e.Points) > Len(o) THEN 0
    ELSE IF o[k + Len(e.Points)] # G0Z(c.SafeZ) THEN 0
    ELSE IF k + Len(e.Points) + 1 <= Len(o) /\ o[k + Len(e.Points) + 1] = RapidToFirst(e, c)
    THEN PassesEnd(o, k + Len(e.Points) + 2, e, c)
    ELSE k + Len(e.Points) + 1

\* o holds at k the head of the block of entity j of es: the comment with
\* the number and stroke, the rapid move to the first point, the retract
IsBlockHead(o, k, es, j, c) ==
    /\ k + 2 <= Len(o)
    /\ o[k] = PathComment(j, es[j].Stroke)
    /\ o[k + 1] = RapidToFirst(es[j], c)
    /\ o[k + 2] = G0Z(c.SafeZ)

\* the index after the blocks of the entities j.. of es that o holds from k
\* on, 0 when o does not hold them in this order; an entity without points
\* has no block
RECURSIVE BlocksEnd(_, _, _, _, _)
BlocksEnd(o, k, es, j, c) ==
    IF k = 0 \/ j > Len(es) THEN k
    ELSE IF Len(es[j].Points) = 0 THEN BlocksEnd(o, k, es, j + 1, c)
    ELSE IF ~IsBlockHead(o, k, es, j, c) THEN 0
    ELSE BlocksEnd(o, PassesEnd(o, k + 3, es[j], c), es, j + 1, c)

\* o is the header, the blocks of the entities of es in order, the footer
IsProgram(o, es, c) ==
    /\ Len(o) >= 6
    /\ SubSeq(o, 1, 4) = <<Banner, G21, G90, G0Z(c.SafeZ)>>
    /\ BlocksEnd(o, 5, es, 1, c) = Len(o) - 1
    /\ SubSeq(o, Len(o) - 1, Len(o)) = <<M5, M2>>

\* writeGcode has returned nil and all it wrote is in out
Succeeded == pc = "returned" /\ Len(out) < MaxOut

\* the strokes of the path comments of o, in order
CommentStrokes(o) == [k \in 1..Len(SelectSeq(o, LAMBDA ins : ins.op = "path")) |->
                         SelectSeq(o, LAMBDA ins : ins.op = "path")[k].s]

\* the strokes of the entities of es that have points, in order
StrokesWithPoints(es) ==
    [k \in 1..Len(SelectSeq(es, LAMBDA e : Len(e.Points) > 0)) |->
        SelectSeq(es, LAMBDA e : Len(e.Points) > 0)[k].Stroke]

\* C12 as stated: a successful writeGcode writes one block for every entity
\* of its input that has points, in the order of the input.
C12_BlockPerInputEntity == Succeeded => CommentStrokes(out) = StrokesWithPoints(paths)

\* C12: a successful writeGcode writes the header, then one block for every
\* entity with points of the list compensation leaves (a closed entity whose
\* offset has fewer than 2 points is dropped from it), in the order of the
\* input, then M5 and M2; every pass, of a run that returns or not, is the
\* plunge followed by the linear moves to the points 2..n in order.
C12_EmissionOrder ==
    /\ Succeeded => IsProgram(out, Compensated(paths, cfg), cfg)
    /\ (pc = "endPass" /\ Len(out) < MaxOut) =>
          IsPass(out, Len(out) - Len(compPaths[idx].Points) + 1, compPaths[idx], cfg)

\* a run has returned after two blocks, behind an entity without points
C12_Witness ==
    /\ Succeeded
    /\ Len(paths) = 2
    /\ Len(paths[1].Points) = 0
    /\ Len(paths[2].Points) > 2
    /\ cfg.Compensation = "none"
    /\ Len(SelectSeq(out, LAMBDA ins : ins.op = "path")) = 1

----------------------------------------------------------------------------
(* What the claims about machine coordinates speak of *)

\* the X and Y words of an instruction, in thousandths
XY(ins) == <<ins.x, ins.y>>

\* (x * Scale, (SvgHeight - y) * Scale) as %.3f prints it
Machine(pt, c) ==
    <<Fmt3(RMul(pt.X, c.Scale)), Fmt3(RMul(RSub(c.SvgHeight, pt.Y), c.Scale))>>

\* the X and Y words of the moves of o, in order
Moves(o) ==
    [k \in 1..Len(SelectSeq(o, LAMBDA ins : ins.op \in {"G0XY", "G1XY"})) |->
        XY(SelectSeq(o, LAMBDA ins : ins.op \in {"G0XY", "G1XY"})[k])]

\* the index in o of the last rapid move to a point, 0 when there is none
RECURSIVE LastRapid(_, _)
LastRapid(o, k) ==
    IF k = 0 THEN 0
    ELSE IF o[k].op = "G0XY" THEN k
    ELSE LastRapid(o, k - 1)

\* the path M0,0 L10,0 L10,10 L0,10 Z alone, SvgHeight = 10, Scale = 1,
\* no compensation
SquareScenario ==
    /\ cfg.SvgHeight = RInt(10)
    /\ cfg.Scale = RInt(1)
    /\ cfg.Compensation = "none"
    /\ Len(paths) = 1
    /\ paths = <<PathEntity(SquareData, Black)>>

\* C13: every X/Y written for a point (x, y) of an entity is
\* (x * Scale, (SvgHeight - y) * Scale): the rapid move of a block or pass
\* for the first point, the linear move i - 1 of a pass for point i; the
\* path M0,0 L10,0 L10,10 L0,10 Z with SvgHeight = 10, Scale = 1 and no
\* compensation is a closed entity written as (0,10), (10,10), (10,0),
\* (0,0), (0,10).
C13_CoordinateConversion ==
    /\ (pc = "plunge" /\ Len(out) < MaxOut) =>
          XY(out[LastRapid(out, Len(out))]) = Machine(compPaths[idx].Points[1], cfg)
    /\ (pc = "cut" /\ i > 2 /\ Len(out) < MaxOut) =>
          XY(out[Len(out)]) = Machine(compPaths[idx].Points[i - 1], cfg)
    /\ (SquareScenario /\ Succeeded) =>
          /\ paths[1].Closed
          /\ compPaths = paths
          /\ Moves(out) = <<<<0, 10000>>, <<10000, 10000>>, <<10000, 0>>, <<0, 0>>,
                            <<0, 10000>>>>

\* the square of the scenario has been written
C13_Witness == SquareScenario /\ Succeeded /\ Len(Moves(out)) = 5

----------------------------------------------------------------------------
(* What the claims about cutter compensation speak of *)

\* compensation is on: the mode is not "none" and the tool has a diameter
Active(c) == c.Compensation # "none" /\ RLt(RZero, c.ToolDia)

\* the tool radius in source units, (ToolDia / 2) / Scale
Radius(c) == RDiv(RDiv(c.ToolDia, RInt(2)), c.Scale)

\* the closed entity e offset by the radius to the side the mode names
OffsetOf(e, c) == Path(offsetPolygon(e.Points, Radius(c), c.Compensation), TRUE, e.Stroke)

\* the entities of es that compensation does not drop, in the order of es
Kept(es, c) ==
    SelectSeq(es, LAMBDA e : ~e.Closed \/ Len(OffsetOf(e, c).Points) >= 2)

\* entity e as writeGcode is to cut it
ToCut(e, c) == IF e.Closed THEN OffsetOf(e, c) ELSE e

----------------------------------------------------------------------------
(* What the claims about the height of the tool speak of *)

\* the index of the last instruction of o[1..k] that commands a Z, 0 when
\* there is none
RECURSIVE LastZ(_, _)
LastZ(o, k) ==
    IF k = 0 THEN 0
    ELSE IF o[k].op \in {"G0Z", "G1Z"} THEN k
    ELSE LastZ(o, k - 1)

\* instruction k of o is written with the tool at the safe height
AtSafeZ(o, k, c) == LastZ(o, k - 1) > 0 /\ o[LastZ(o, k - 1)].z = Fmt3(c.SafeZ)

\* instruction k of o is written with the tool below the safe height
BelowSafeZ(o, k, c) == LastZ(o, k - 1) > 0 /\ o[LastZ(o, k - 1)].z < Fmt3(c.SafeZ)

\* C15: whenever a rapid move with X/Y is written, the Z commanded last is
\* SafeZ; the tool is retracted to SafeZ right before the comment of the
\* next entity and before the footer; a move with X/Y that is not a G1 is
\* never written while the Z commanded last is below SafeZ.
C15_SafeTravel ==
    \A k \in 1..Len(out) :
        /\ out[k].op = "G0XY" => AtSafeZ(out, k, cfg)
        /\ out[k].op \in {"path", "M5"} => out[k - 1] = G0Z(cfg.SafeZ)
        /\ (out[k].op \in {"G0XY", "G1XY"} /\ out[k].op # "G1XY") => ~BelowSafeZ(out, k, cfg)

\* the tool has come back above the first point between two passes of the
\* second entity, after cutting below the safe height
C15_Witness ==
    /\ pc = "plunge"
    /\ idx = 2
    /\ Len(out) < MaxOut
    /\ out[Len(out)].op = "G0XY"
    /\ Len(Plunges(LastBlock(out))) = 1
    /\ Plunges(LastBlock(out))[1].z < Fmt3(cfg.SafeZ)
    /\ Len(compPaths[idx].Points) > 1

\* C20: with CutDepth < 0 and SafeZ >= CutDepth every Z written lies in
\* [CutDepth, SafeZ], and the depth of every plunge is at or above the
\* target, whatever StepDown is.
C20_DepthBound ==
    (RLt(cfg.CutDepth, RZero) /\ RLe(cfg.CutDepth, cfg.SafeZ)) =>
        /\ \A k \in 1..Len(out) :
              out[k].op \in {"G0Z", "G1Z"} =>
                  Fmt3(cfg.CutDepth) <= out[k].z /\ out[k].z <= Fmt3(cfg.SafeZ)
        /\ pc \in {"cut", "endPass"} => RLe(cfg.CutDepth, nextZ) /\ RLe(nextZ, cfg.SafeZ)

\* a plunge has been cut short at the target: the step does not divide the
\* depth range
C20_Witness ==
    /\ pc = "cut"
    /\ Len(out) < MaxOut
    /\ RLt(RZero, cfg.StepDown)
    /\ RLt(RSub(z, step), targetZ)
    /\ nextZ = cfg.CutDepth
    /\ out[LastZ(out, Len(out))].z = Fmt3(cfg.CutDepth)

----------------------------------------------------------------------------
(* Mul and Apply called on a bounded set of transforms and points *)

\* the largest scale factor of a transform
MaxCoef == 2

\* 2 x 3 matrices with integer components: the identity, translations,
\* scalings, shears and rotations with scaling among them
Transforms ==
    { Transform(RInt(a), RInt(b), RInt(c), RInt(1), RInt(e), RInt(f)) :
        a \in 1..MaxCoef, b \in {0, 1}, c \in {-1, 0}, e \in {0, MaxCoef + 1}, f \in {-2, 0} }

TransformPoints == { P(1, 2), P(-1, 3) }

Unset == <<>>

InitCompose ==
    /\ calls \in [t : Transforms, u : Transforms, v : Transforms, p : TransformPoints,
                  composed : {Unset}, nested : {Unset}, left : {Unset}, right : {Unset},
                  unitLeft : {Unset}, unitRight : {Unset}]
    /\ pc = "compose"
    /\ EmitIdle
    /\ PathIdle
    /\ OffsetIdle
    /\ MainIdle

\* t.Mul(u).Apply(p) and t.Apply(u.Apply(p))
ApplyComposed ==
    /\ pc = "compose"
    /\ calls' = [calls EXCEPT !.composed = Apply(Mul(calls.t, calls.u), calls.p),
                              !.nested = Apply(calls.t, Apply(calls.u, calls.p))]
    /\ pc' = "associate"
    /\ UNCHANGED <<paths, compPaths, cfg, out, targetZ, step, idx, i, z, nextZ, err>>
    /\ UNCHANGED <<pathVars, offsetVars, mainVars>>

\* t.Mul(u).Mul(v), t.Mul(u.Mul(v)), identityTransform().Mul(t) and
\* t.Mul(identityTransform())
Associate ==
    /\ pc = "associate"
    /\ calls' = [calls EXCEPT !.left = Mul(Mul(calls.t, calls.u), calls.v),
                              !.right = Mul(calls.t, Mul(calls.u, calls.v)),
                              !.unitLeft = Mul(identityTransform, calls.t),
                              !.unitRight = Mul(calls.t, identityTransform)]
    /\ pc' = "composed"
    /\ UNCHANGED <<paths, compPaths, cfg, out, targetZ, step, idx, i, z, nextZ, err>>
    /\ UNCHANGED <<pathVars, offsetVars, mainVars>>

NextCompose == ApplyComposed \/ Associate

SpecCompose == InitCompose /\ [][NextCompose]_vars

\* C18: t.Mul(u).Apply(p) = t.Apply(u.Apply(p)): the inner transform u is
\* applied first; Mul is associative; identityTransform() is a left and a
\* right unit of Mul (integer components, where float64 is exact).
C18_Composition ==
    /\ pc \in {"associate", "composed"} => calls.composed = calls.nested
    /\ pc = "composed" =>
          /\ calls.left = calls.right
          /\ calls.unitLeft = calls.t
          /\ calls.unitRight = calls.t

\* two transforms that do not commute, and a third that is not the
\* identity, have been composed
C18_Witness ==
    /\ pc = "composed"
    /\ calls.v # identityTransform
    /\ Apply(calls.t, Apply(calls.u, calls.p)) # Apply(calls.u, Apply(calls.t, calls.p))
    /\ calls.left # Mul(calls.v, Mul(calls.u, calls.t))

----------------------------------------------------------------------------
(* main run on documents with elements that fail to parse *)

\* path data of more than 40 characters that ends in the middle of a pair
LongData == <<"M", " ", "0", " ", "0", " ", "L", " ", "1", " ", "0", " ", "L", " ", "1", " ", "1", " ", "L", " ", "0", " ", "1", " ", "L", " ", "0", " ", "0", " ", "L", " ", "1", " ", "0", " ", "L", " ", "1", " ", "1", " ", "L", " ", "0">>
OddPoints == <<"0", ",", "0", " ", "3">>

\* the leaf elements of the documents: those of LeafList and three more that
\* fail to parse
RunLeaves ==
    { LeafList[k] : k \in 1..Len(LeafList) }
        \cup { PathElem(LongData, <<>>, <<>>),
               PolyElem("polyline", OddPoints, <<>>),
               PolyElem("polygon", OddPoints, Black) }

RunDocs == { Svg(Concat(ls)) : ls \in UNION { [1..k -> RunLeaves] : k \in 0..MaxItems } }

\* -out absent or given, with and without compensation
RunLines ==
    { Flags(InputFile, o, -1, cm[1], cm[2], ConstructionDefault) :
        o \in {"", "out.nc"}, cm \in { <<None, 0>>, <<Outside, 2>> } }

InitRun ==
    /\ flags \in RunLines
    /\ doc \in RunDocs
    /\ pc = "main"
    /\ size = <<RZero, RZero>>
    /\ cc = <<>>
    /\ created = FALSE
    /\ stderr = <<>>
    /\ status = -1
    /\ walk = <<>>
    /\ EmitIdle
    /\ PathIdle
    /\ OffsetIdle
    /\ GeomIdle

NextRun == main

SpecRun == InitRun /\ [][NextRun]_vars

\* the element that starts with t fails to parse: a path with data that
\* parseSimplePath rejects (and no foreign command, see C16), a polyline or
\* polygon with points that parsePointsList rejects
FailsToParse(t) ==
    /\ t.tok = "start"
    /\ \/ /\ t.name = "path"
          /\ ~ForeignPath(t)
          /\ parseSimplePath(TrimSpace(t.d)).err # ""
       \/ /\ t.name \in {"polyline", "polygon"}
          /\ parsePointsList(t.points).err # ""

\* the index of the first of the tokens k.. that starts such an element, 0
\* when there is none
RECURSIVE FirstFailure(_, _)
FirstFailure(tokens, k) ==
    IF k > Len(tokens) THEN 0
    ELSE IF FailsToParse(tokens[k]) THEN k
    ELSE FirstFailure(tokens, k + 1)

\* what the error of parseSVG says of the element that starts with t: its
\* kind and, for a path, the first 40 characters of its data at most
Names(r, t) ==
    /\ t.name = "path" =>
          /\ r.err = "parse path"
          /\ SubSeq(r.excerpt, 1, Min(Len(TrimSpace(t.d)), 40))
                 = SubSeq(TrimSpace(t.d), 1, Min(Len(TrimSpace(t.d)), 40))
          /\ Len(r.excerpt) > 40 => SubSeq(r.excerpt, 41, Len(r.excerpt)) = <<".", ".", ".">>
    /\ t.name = "polyline" => r.err = "parse polyline points"
    /\ t.name = "polygon" => r.err = "parse polygon points"

\* C19: when an element of the document fails to parse, parseSVG returns
\* an error that names the kind of the first such element (and at most 40
\* characters of its data for a path) and no entity; main writes no
\* instruction, creates no file and exits with status 1 after the message
\* "error parsing SVG".
C19_ParseErrorAborts ==
    FirstFailure(doc, 1) > 0 =>
        /\ parseSVG(doc).result = <<>>
        /\ Names(parseSVG(doc), doc[FirstFailure(doc, 1)])
        /\ out = <<>>
        /\ paths = <<>>
        /\ ~created
        /\ pc \in {"main", "parseSVG", "exit"}
        /\ pc = "exit" => status = 1 /\ stderr = <<"error parsing SVG">>

\* a run with -out has ended on the long path, which stood behind a polygon
C19_Witness ==
    /\ pc = "exit"
    /\ status = 1
    /\ flags.out = "out.nc"
    /\ Len(doc) = 6
    /\ doc[2].name = "polygon"
    /\ ~FailsToParse(doc[2])
    /\ doc[4].d = LongData
    /\ Len(parseSVG(doc).excerpt) = 43

----------------------------------------------------------------------------
(* parseSimplePath read one iteration of its loop at a time *)

\* the most commands a scanned path data string is written from
MaxCmds == 4

\* the commands the scanned path data is written from: absolute and
\* relative moves and lines, a Close, a relative curve that is not flat, and
\* a number without a command of its own
ScanSegments ==
    { <<Lx("M"), Lx("0"), Lx("0")>>,
      <<Lx("m"), Lx("1"), Lx("2")>>,
      <<Lx("L"), Lx("2"), Lx("0")>>,
      <<Lx("l"), Lx("1"), Lx("1")>>,
      <<Lx("Z")>>,
      <<Lx("c"), Lx("0"), Lx("0"), Lx("1"), Lx("0"), Lx("1"), Lx("1")>>,
      <<Lx("1")>> }

ScanLists == UNION { [1..k -> ScanSegments] : k \in 0..MaxCmds }

InitScan ==
    /\ segs \in ScanLists
    /\ sep = "spaced"
    /\ pathD = Written(Lexemes(segs), sep)
    /\ parsed = PathResult(PathStart)
    /\ scan = PathStart
    /\ pc = "scan"
    /\ EmitIdle
    /\ OffsetIdle
    /\ MainIdle
    /\ GeomIdle

\* lines 225-363: one iteration of the loop over the tokens
ScanToken ==
    /\ pc = "scan"
    /\ scan.err = ""
    /\ scan.i <= Len(Tokens)
    /\ scan' = PathStep(Tokens, scan)
    /\ UNCHANGED <<pathD, segs, sep, parsed>>
    /\ UNCHANGED <<paths, compPaths, cfg, out, pc, targetZ, step, idx, i, z, nextZ, err>>
    /\ UNCHANGED <<offsetVars, mainVars, geomVars>>

\* the returns of lines 212-214, 242-366
ScanReturn ==
    /\ pc = "scan"
    /\ scan.err # "" \/ scan.i > Len(Tokens)
    /\ parsed' = PathResult(scan)
    /\ pc' = "scanned"
    /\ UNCHANGED <<pathD, segs, sep, scan>>
    /\ UNCHANGED <<paths, compPaths, cfg, out, targetZ, step, idx, i, z, nextZ, err>>
    /\ UNCHANGED <<offsetVars, mainVars, geomVars>>

NextScan == ScanToken \/ ScanReturn

SpecScan == InitScan /\ [][NextScan]_vars

----------------------------------------------------------------------------
(* What the claims about the iterations of parseSimplePath speak of *)

\* the iteration at hand reads the token tokens[i]
Reading == pc = "scan" /\ scan.err = "" /\ scan.i <= Len(Tokens)

\* the iteration at hand reads a command token with a letter of letters
ReadingCommand(letters) ==
    Reading /\ isCommand(Tokens[scan.i]) /\ Tokens[scan.i][1] \in letters

\* C22: a Close read when at least one point exists appends the stored start
\* point and sets closed; read when no point exists it adds no point and
\* leaves closed as it is; in both cases the current point and the stored
\* start point are what they were before the Close.
C22_Close ==
    [][ReadingCommand({"Z", "z"})
       => /\ scan'.cur = scan.cur
          /\ scan'.start = scan.start
          /\ IF Len(scan.pts) > 0
             THEN scan'.pts = Append(scan.pts, scan.start) /\ scan'.closed
             ELSE scan'.pts = scan.pts /\ scan'.closed = scan.closed]_vars

\* "M 0 0 L 2 0 Z l 1 1": the Close appended (0,0) and the relative line after
\* it went on from (2,0), the current point before the Close
C22_Witness ==
    /\ pc = "scanned"
    /\ parsed.err = ""
    /\ parsed.closed
    /\ parsed.pts = <<P(0, 0), P(2, 0), P(0, 0), P(3, 1)>>

\* the iteration at hand reads coordinates under a command of letters
ReadingUnder(letters) ==
    Reading /\ ~isCommand(Tokens[scan.i]) /\ scan.cmd \in letters

\* the Line that corresponds to a Move
LineOf(c) == IF c = "M" THEN "L" ELSE IF c = "m" THEN "l" ELSE c

\* C24: once the output has points, the stored start point is the first
\* point of the output and no iteration changes it; coordinates read under a
\* Move leave parseSimplePath in the state the same coordinates read under
\* the corresponding Line leave it in, the new point appended to the one
\* sequence; and a Close appends the first point of the path.
C24_MoveAsLine ==
    [][(Reading /\ Len(scan.pts) > 0)
       => /\ scan.start = scan.pts[1]
          /\ scan'.start = scan.start
          /\ ReadingUnder({"M", "m"})
             => /\ scan' = PathStep(Tokens, [scan EXCEPT !.cmd = LineOf(scan.cmd)])
                /\ scan'.err = "" => SubSeq(scan'.pts, 1, Len(scan.pts)) = scan.pts
                /\ scan'.err = "" => Len(scan'.pts) = Len(scan.pts) + 1
          /\ ReadingCommand({"Z", "z"})
             => scan'.pts = Append(scan.pts, scan.pts[1])]_vars

\* "L 2 0 M 0 0 l 1 1 Z": the Move to (0,0) went on with the sequence begun at
\* (2,0), and the Close appended (2,0)
C24_Witness ==
    /\ pc = "scanned"
    /\ parsed.err = ""
    /\ parsed.closed
    /\ parsed.pts = <<P(2, 0), P(0, 0), P(1, 1), P(2, 0)>>

\* C25: whenever parseSimplePath succeeds with closed = true, the last of
\* the returned points is the first one, whatever commands follow the Close.
C25_ClosedEndsAtFirst ==
    (pc = "scanned" /\ parsed.err = "" /\ parsed.closed)
    => almostEqualPoint(parsed.pts[Len(parsed.pts)], parsed.pts[1])

----------------------------------------------------------------------------
(* flattenCubicBezier called on a bounded set of curves, and the curve      *)
(* group of parseSimplePath that calls it                                   *)

\* the largest coordinate of a control point
MaxCurve == 2

CurvePoints == { P(x, y) : x \in 0..MaxCurve, y \in 0..MaxCurve }

\* the points a curve starts from
CurveStarts == { P(0, 0), P(1, 2) }

InitFlatten ==
    /\ calls \in [p0 : CurveStarts, p1 : CurvePoints, p2 : CurvePoints, p3 : CurvePoints,
                  seg : {Unset}, st : {Unset}]
    /\ pc = "flatten"
    /\ EmitIdle
    /\ PathIdle
    /\ OffsetIdle
    /\ MainIdle

\* src/svg2gcode.go:340-341: var seg []Point; flattenCubicBezier(cur, p1, p2, p3, flatness, &seg)
Flatten ==
    /\ pc = "flatten"
    /\ calls' = [calls EXCEPT !.seg = flattenCubicBezier(calls.p0, calls.p1, calls.p2,
                                                          calls.p3, Flatness)]
    /\ pc' = "expand"
    /\ UNCHANGED <<paths, compPaths, cfg, out, targetZ, step, idx, i, z, nextZ, err>>
    /\ UNCHANGED <<pathVars, offsetVars, mainVars>>

\* the locals of parseSimplePath at a curve group read at p0, the only point so far
AtCurve(p0) == [AddPoint(PathStart, p0) EXCEPT !.cmd = "C", !.i = 5]

\* src/svg2gcode.go:342-355: seg is taken over
Expand ==
    /\ pc = "expand"
    /\ calls' = [calls EXCEPT !.st = CurveSegment(AtCurve(calls.p0), calls.seg, calls.p3)]
    /\ pc' = "expanded"
    /\ UNCHANGED <<paths, compPaths, cfg, out, targetZ, step, idx, i, z, nextZ, err>>
    /\ UNCHANGED <<pathVars, offsetVars, mainVars>>

NextFlatten == Flatten \/ Expand

SpecFlatten == InitFlatten /\ [][NextFlatten]_vars

\* the point half way from a to b
Mid(a, b) == Pt(RDiv(RAdd(a.X, b.X), RInt(2)), RDiv(RAdd(a.Y, b.Y), RInt(2)))

\* the distance of p to the line through a and b is at most Flatness (to a
\* itself when a = b), compared on squares: (10 |(p-a) x (b-a)|)^2 <= |b-a|^2
Near(p, a, b) ==
    IF a = b THEN RLe(RMul(RInt(100), DistSqTo(p, a)), RInt(1))
    ELSE RLe(RMul(RInt(100), Square(cross(Diff(p, a), Diff(b, a)))), DistSqTo(b, a))

\* the curve is flat enough to be one segment
IsFlat(c) == Near(c.p1, c.p0, c.p3) /\ Near(c.p2, c.p0, c.p3)

\* the halves of the curve split at t = 1/2 by De Casteljau
LeftHalf(c) ==
    <<c.p0, Mid(c.p0, c.p1), Mid(Mid(c.p0, c.p1), Mid(c.p1, c.p2)),
      Mid(Mid(Mid(c.p0, c.p1), Mid(c.p1, c.p2)), Mid(Mid(c.p1, c.p2), Mid(c.p2, c.p3)))>>

RightHalf(c) ==
    <<Mid(Mid(Mid(c.p0, c.p1), Mid(c.p1, c.p2)), Mid(Mid(c.p1, c.p2), Mid(c.p2, c.p3))),
      Mid(Mid(c.p1, c.p2), Mid(c.p2, c.p3)), Mid(c.p2, c.p3), c.p3>>

Flattened(h) == flattenCubicBezier(h[1], h[2], h[3], h[4], Flatness)

\* C23: flattenCubicBezier appends at least one point and its last point is
\* p3; it appends p3 alone when both control points are within the tolerance
\* of the chord, and otherwise the points of the left half followed by the
\* points of the right half; so the curve group of parseSimplePath never
\* finds seg empty, appends every point of seg and ends with cur = p3.
C23_CurveExpansion ==
    /\ pc \in {"expand", "expanded"}
       => /\ Len(calls.seg) >= 1
          /\ calls.seg[Len(calls.seg)] = calls.p3
          /\ IF IsFlat(calls) THEN calls.seg = <<calls.p3>>
             ELSE calls.seg = Flattened(LeftHalf(calls)) \o Flattened(RightHalf(calls))
    /\ pc = "expanded"
       => /\ calls.st.cur = calls.p3
          /\ calls.st.pts = <<calls.p0>> \o calls.seg
          /\ calls.st.start = calls.p0

\* a curve that is not flat was split, its points were appended after p0 and
\* cur is its end point
C23_Witness ==
    /\ pc = "expanded"
    /\ ~IsFlat(calls)
    /\ Len(calls.seg) > 2
    /\ calls.st.pts = <<calls.p0>> \o calls.seg
    /\ calls.st.cur = calls.p3

----------------------------------------------------------------------------
(* What the claim about the single pass speaks of *)

\* C21: with StepDown <= 0 every plunge goes to CutDepth and is the first
\* move after the rapids that open the block of its entity, a rapid in XY is
\* written only at the head of a block (no return to the first point), and
\* the block of a finished entity holds exactly one plunge and ends with the
\* retract to SafeZ.
C21_SinglePass ==
    RLe(cfg.StepDown, RZero)
    => /\ \A k \in 1..Len(out) :
            /\ out[k].op = "G1Z"
               => /\ out[k].z = Fmt3(cfg.CutDepth)
                  /\ out[k - 1] = G0Z(cfg.SafeZ)
                  /\ out[k - 2].op = "G0XY"
                  /\ out[k - 3].op = "path"
            /\ out[k].op = "G0XY" => out[k - 1].op = "path"
       /\ EntityFinished
          => /\ Len(Plunges(LastBlock(out))) = 1
             /\ out[Len(out)] = G0Z(cfg.SafeZ)

====
